---- MODULE Spec2Model ----
(***************************************************************************)
(* Model of the PR-Arena coordination code of neulab/pr-arena.             *)
(*                                                                         *)
(* Two revisions of the coordinator live in the repository and both are    *)
(* modelled; the variable rev says which one a behaviour runs:             *)
(*   "resolver"           src/resolver/resolve_issue.py,                   *)
(*                        src/resolver/listen_for_decision.py              *)
(*   "openhands_resolver" src/openhands_resolver/resolve_issues.py,        *)
(*                        src/openhands_resolver/listen_for_decision.py    *)
(*                                                                         *)
(* Spec: a behaviour is one arena run (resolve_issues_with_random_models:    *)
(* two agent attempts, their reconciliation by get_new_commit_hash, the     *)
(* persisting and signalling of send_to_firebase) together with the         *)
(* external decision on the persisted record.                               *)
(* ListenerSpec: a behaviour is one run of the decision listener            *)
(* (get_selected_model_number), a process of its own, on the store as       *)
(* earlier runs have left it; ListenerLiveSpec adds the fairness of the     *)
(* event loop.  ArenaSpec: the run and its listener together.               *)
(* PrepareSpec, RepoSpec, CommitSpec, MessageSpec, PatchSpec, DirSpec:      *)
(* calls of prepare_branch_and_push, initialize_repo, make_commit, the      *)
(* commit message builder and apply_patch (one file, and a working          *)
(* directory with file sections) on inputs drawn from bounded sets.         *)
(* RaceSpec: two runs in prepare_branch_and_push at once.                   *)
(* SelectionsSpec: the writes of one user's selection record.               *)
(***************************************************************************)
EXTENDS Integers, Sequences, FiniteSets, TLC

\* ---------------------------------------------------------------- bounds
\* Branch names are numbered: 0 is the bare name openhands-fix-issue-{n},
\* k >= 1 is openhands-fix-issue-{n}-try{k}.  MaxBranch is the largest
\* index the model lets the remote hold.
MaxBranch == 4
\* Number of document identifiers uuid4 can draw from.
MaxUuid == 2
\* Number of document-change notifications delivered to one listener.
MaxSnapshots == 2

\* ------------------------------------------------------------ value sets
NULL == "null"
Revisions == {"resolver", "openhands_resolver"}
Attempts == {1, 2}
\* git_patch of an attempt: None, the empty string, or a diff text.
Patches == {NULL, "", "diff"}
Branches == 0..MaxBranch
NoBranch == -1
UUIDs == 1..MaxUuid
\* HTTP answers of the remote branch-existence probe.
StatusCodes == {200, 404, 500}
Statuses == {"pending", "failed", "completed"}
Winners == {NULL, "modelA", "modelB", "tie", "other"}
\* Owner marks of a branch of the remote.
Absent == 0
PreExisting == 3

VARIABLES
    rev,            \* revision of the code the run executes
    github_env,     \* TRUE iff os.getenv("GITHUB_ENV") is set (coordinator)
    pc,             \* position of resolve_issues_with_random_models
    cur,            \* attempt being reconciled by send_to_firebase
    output_dir,     \* self.output_dir / output_dir argument of resolve_issues
    out,            \* the two resolver outputs (CustomResolverOutput)
    work,           \* the working copies output{i}/patches/{type}_{n}
    try_n,          \* local variable attempt of prepare_branch_and_push
    probes,         \* per attempt, the probes made: <<branch, status code>>
    remote,         \* branches of the remote repository -> owner mark
    jsonl,          \* output{i}/output.jsonl: what was dumped for attempt i
    issue_collection,   \* Firestore issue_collection: uuid -> document
    userdata,       \* Firestore userdata_collection/{owner}
    env_file,       \* lines appended to the GITHUB_ENV file
    ref_id,         \* reference_id of send_to_firebase
    user_collection,    \* Firestore user_collection/{owner} (openhands_resolver listener)
    lst,            \* the decision listener (get_selected_model_number)
    log,            \* logger.error records of the listener
    pr_type,        \* the pr_type argument of prepare_branch_and_push
    exc,            \* message of the exception that ended the run, or NULL
    fs,             \* the directories under output_dir a function is called on
    ret,            \* the calls made of that function, with what they returned
    runs            \* concurrent runs of prepare_branch_and_push for one issue

vars == <<rev, github_env, pc, cur, output_dir, out, work, try_n, probes,
          remote, jsonl, issue_collection, userdata, env_file, ref_id,
          user_collection, lst, log, pr_type, exc, fs, ret, runs>>

\* ----------------------------------------------------------- pure helpers
\* Python truthiness of git_patch: `not git_patch` holds for None and "".
Truthy(p) == p \notin {NULL, ""}

\* Faulty variant of OutputDir: the directory is not switched for the second
\* attempt.
OutputDir_NotSwitched(i) == "output1"

\* output directory of attempt i: resolve_issue.py:211,234 and 277,282.
OutputDir(i) == IF i = 1 THEN "output1" ELSE "output2"

\* The working copy directory initialize_repo returns (commit_only.py:68).
PatchedRepoDir(d) == <<d, "patches">>

\* First branch candidate: resolve_issue.py:720 starts with -try1,
\* openhands_resolver/resolve_issues.py:158 with the bare base name.
FirstCandidate(r) == IF r = "resolver" THEN 1 ELSE 0

\* The candidate probed when the local counter attempt is n:
\* resolve_issue.py:720,726 and resolve_issues.py:158,164.
Candidate(r, n) == IF n = 1 THEN FirstCandidate(r) ELSE n

\* while <probe>.status_code == 200 (resolve_issue.py:724).
ProbeSaysExists(code) == code = 200

\* Faulty variant of IsFailed: `and` in place of `or`, so that the run fails
\* only when both patches are missing.
IsFailed_BothMissing(r, o1, o2) ==
    ~Truthy(o1.git_patch) /\ ~Truthy(o2.git_patch)

\* The status send_to_firebase persists: resolve_issue.py:338 and
\* openhands_resolver/resolve_issues.py:348.
IsFailed(r, o1, o2) ==
    IF r = "resolver"
    THEN ~Truthy(o1.git_patch) \/ ~Truthy(o2.git_patch)
    ELSE \/ ~Truthy(o1.git_patch) \/ ~Truthy(o2.git_patch)
         \/ o1.success = FALSE \/ o2.success = FALSE

PersistedStatus(r, o1, o2) == IF IsFailed(r, o1, o2) THEN "failed" ELSE "pending"

\* issue_data of send_to_firebase (resolve_issue.py:339-368, 385-414).
IssueData(st, o1, o2) ==
    [status |-> st, winner |-> NULL,
     commitA |-> o1.commit_hash, commitB |-> o2.commit_hash,
     codeA |-> IF Truthy(o1.git_patch) THEN o1.git_patch ELSE "",
     codeB |-> IF Truthy(o2.git_patch) THEN o2.git_patch ELSE ""]

NoDoc == [status |-> "nodoc", winner |-> NULL,
          commitA |-> NULL, commitB |-> NULL, codeA |-> "", codeB |-> ""]

\* Faulty variant of SignalLines: a fresh identifier is signalled in place
\* of reference_id, and the failed path signals one as well.
SignalLines_OtherId(st, id) ==
    IF st = "failed"
    THEN << <<"UUID", id>>, <<"FAILED", "TRUE">> >>
    ELSE << <<"UUID", MaxUuid + 1 - id>>, <<"FAILED", "FALSE">> >>

\* Lines send_to_firebase appends (resolve_issue.py:380-381, 460-462).
SignalLines(st, id) ==
    IF st = "failed"
    THEN << <<"FAILED", "TRUE">> >>
    ELSE << <<"UUID", id>>, <<"FAILED", "FALSE">> >>


\* --------------------------------------------------------------- records
InitOut ==
    [state |-> "idle", git_patch |-> NULL, success |-> TRUE, error |-> NULL,
     branch_name |-> NoBranch, commit_hash |-> NULL, output_dir |-> NULL]

\* A run of prepare_branch_and_push next to another one: its position, its
\* local variable attempt, and the branch name it has left the loop with.
Runs == {1, 2}
NoRun == [pc |-> "idle", attempt |-> 1, branch |-> NoBranch]
NoRuns == [r \in Runs |-> NoRun]

\* git holds the git commands run in the working copy, in order, each with
\* its outcome: <<command, TRUE>> for exit code 0.
InitWork ==
    [dir |-> NULL, inited |-> FALSE, applied |-> FALSE, committed |-> FALSE,
     local_branch |-> NoBranch, pushed |-> FALSE, git |-> << >>]

NoDump == [written |-> FALSE, git_patch |-> NULL, success |-> TRUE,
           branch_name |-> NoBranch, commit_hash |-> NULL]

NoSel == [present |-> FALSE, choice |-> NULL, isLatest |-> FALSE]

NoUser == [exists |-> FALSE, sel |-> [u \in UUIDs |-> NoSel]]

NoSnapshot == [status |-> "nodoc", winner |-> NULL]

\* delivered counts the calls of on_snapshot, last is the document data of
\* the latest call.
InitListener ==
    [pc |-> "idle", uuid |-> 0, github_env |-> FALSE, event |-> FALSE,
     delivered |-> 0, last |-> NoSnapshot]

\* Content of a directory holding a git checkout: the commit checked out and
\* the working tree, named by the commit whose tree it equals, "dirty" for a
\* tree with local modifications, "stale" for files that are no checkout of
\* the repository.  Missing stands for a path that does not exist.
Commits == {"c1", "c2"}
Missing == [head |-> "none", tree |-> "none"]
Checkouts == [head : Commits, tree : Commits \cup {"dirty"}]
Stale == [head |-> "none", tree |-> "stale"]

\* output_dir/repo and output_dir/patches/{issue_type}_{issue_number}.
NoFs == [repo |-> Missing, dest |-> Missing]

\* ------------------------------------------------------------------ Init
\* The remote may already hold branches of earlier runs, with room left for
\* the two branches of this run.
Init ==
    /\ rev \in Revisions
    /\ github_env \in BOOLEAN
    /\ pc = "start"
    /\ cur = 1
    /\ output_dir = NULL
    /\ out = [i \in Attempts |-> InitOut]
    /\ work = [i \in Attempts |-> InitWork]
    /\ try_n = 1
    /\ probes = [i \in Attempts |-> << >>]
    /\ \E S \in SUBSET (0..(MaxBranch - 2)) :
          remote = [b \in Branches |-> IF b \in S THEN PreExisting ELSE Absent]
    /\ jsonl = [i \in Attempts |-> NoDump]
    /\ issue_collection = [u \in UUIDs |-> NoDoc]
    /\ userdata = NoUser
    /\ env_file = << >>
    /\ ref_id = 0
    /\ lst = InitListener
    /\ log = << >>
    /\ user_collection = NoUser
    /\ pr_type = "draft"
    /\ exc = NULL
    /\ runs = NoRuns
    /\ fs = NoFs
    /\ ret = << >>

\* --------------------------------------------- resolve_issues_with_random_models
\* Faulty variant of AttemptMayStart: the second attempt is started without
\* awaiting the first (both coroutines gathered).
AttemptMayStart_Gathered(i) ==
    \/ i = 1 /\ pc = "start"
    \/ i = 2 /\ pc \in {"attemptA", "afterA"}

\* May attempt i be started?  The coordinator awaits attempt A before it
\* configures and starts attempt B (resolve_issue.py:213, 236).
AttemptMayStart(i) ==
    \/ i = 1 /\ pc = "start"
    \/ i = 2 /\ pc = "afterA"

\* self.output_dir = 'output{i}'; await self.resolve_issue()
StartAttempt(i) ==
    /\ AttemptMayStart(i)
    /\ out[i].state = "idle"
    /\ output_dir' = OutputDir(i)
    /\ out' = [out EXCEPT ![i].state = "running",
                          ![i].output_dir = OutputDir(i)]
    /\ pc' = IF i = 1 THEN "attemptA" ELSE "attemptB"
    /\ UNCHANGED <<rev, runs, pr_type, fs, ret, exc, github_env, cur, work, try_n, probes, remote, jsonl,
                   issue_collection, userdata, env_file, ref_id, lst, log,
                   user_collection>>

\* What resolve_issue can return.  In src/resolver an exception inside the
\* try block is replaced, by the return in the finally block, with the
\* error output (git_patch None, success False); the agent's result carries
\* any patch and any success flag.  In src/openhands_resolver process_issue
\* always reports success = True (resolve_issues.py:679).
AttemptResults(r) ==
    IF r = "resolver"
    THEN {[git_patch |-> p, success |-> s, error |-> NULL] :
              p \in Patches, s \in BOOLEAN}
         \cup {[git_patch |-> NULL, success |-> FALSE,
                error |-> "Failed to complete processing"]}
    ELSE {[git_patch |-> p, success |-> TRUE, error |-> NULL] : p \in Patches}

\* resolve_issue returns its output to the coordinator.
FinishAttempt(i) ==
    /\ out[i].state = "running"
    /\ pc = (IF i = 1 THEN "attemptA" ELSE "attemptB")
    /\ \E res \in AttemptResults(rev) :
          out' = [out EXCEPT ![i].state = "returned",
                             ![i].git_patch = res.git_patch,
                             ![i].success = res.success,
                             ![i].error = res.error]
    /\ pc' = IF i = 1 THEN "afterA" ELSE "afterB"
    /\ UNCHANGED <<rev, runs, pr_type, fs, ret, exc, github_env, cur, output_dir, work, try_n, probes,
                   remote, jsonl, issue_collection, userdata, env_file,
                   ref_id, lst, log,
                   user_collection>>

\* resolve_issue raises before its try block (no issue found, clone failed),
\* or, in openhands_resolver, anywhere: the exception leaves the coordinator.
AttemptRaises(i) ==
    /\ out[i].state = "running"
    /\ pc = (IF i = 1 THEN "attemptA" ELSE "attemptB")
    /\ out' = [out EXCEPT ![i].state = "raised"]
    /\ pc' = "raised"
    /\ exc' = "resolve_issue raised"
    /\ UNCHANGED <<rev, runs, pr_type, fs, ret, github_env, cur, output_dir, work, try_n, probes,
                   remote, jsonl, issue_collection, userdata, env_file,
                   ref_id, lst, log,
                   user_collection>>

\* May send_to_firebase start?  Only after both awaits have returned
\* (resolve_issue.py:245).
SendMayStart == pc = "afterB"

\* send_to_firebase is entered: get_new_commit_hash("output1", ...) is next.
BeginSend ==
    /\ SendMayStart
    /\ cur' = 1
    /\ pc' = "init_repo"
    /\ UNCHANGED <<rev, runs, pr_type, fs, ret, exc, github_env, output_dir, out, work, try_n, probes,
                   remote, jsonl, issue_collection, userdata, env_file,
                   ref_id, lst, log,
                   user_collection>>


\* ------------------------------------------------------ get_new_commit_hash
\* 1) initialize_repo (commit_only.py:66-89): raises when output_dir/repo is
\* missing; otherwise copies it to the working copy and checks out
\* base_commit there, raising when git checkout exits non-zero.
\* Without a patch get_new_commit_hash goes straight to rev-parse; the
\* openhands_resolver revision then also clears success (resolve_issues.py:235).
InitializeRepo ==
    /\ pc = "init_repo"
    /\ \E res \in {"no_source", "checkout_failed", "ok"} :
          IF res = "ok"
          THEN /\ work' = [work EXCEPT ![cur] =
                      [InitWork EXCEPT !.dir = PatchedRepoDir(OutputDir(cur)),
                                       !.inited = TRUE,
                                       !.git = << <<"checkout", TRUE>> >>]]
               /\ out' = IF ~Truthy(out[cur].git_patch) /\ rev = "openhands_resolver"
                         THEN [out EXCEPT ![cur].success = FALSE]
                         ELSE out
               /\ pc' = IF Truthy(out[cur].git_patch) THEN "apply_patch"
                                                      ELSE "rev_parse"
               /\ exc' = exc
          ELSE /\ pc' = "raised"
               /\ exc' = IF res = "no_source"
                         THEN "Source directory does not exist"
                         ELSE "Failed to check out commit"
               /\ work' = IF res = "no_source" THEN work
                          ELSE [work EXCEPT ![cur] =
                                  [InitWork EXCEPT !.dir = PatchedRepoDir(OutputDir(cur)),
                                                   !.git = << <<"checkout", FALSE>> >>]]
               /\ UNCHANGED out
    /\ UNCHANGED <<rev, runs, pr_type, fs, ret, github_env, cur, output_dir, try_n, probes, remote,
                   jsonl, issue_collection, userdata, env_file, ref_id, lst, log,
                   user_collection>>

\* 2) apply_patch (commit_only.py:11-64): writes the patched files, or
\* raises when the patch text cannot be parsed or applied.
ApplyPatch ==
    /\ pc = "apply_patch"
    /\ \E ok \in BOOLEAN :
          IF ok
          THEN /\ work' = [work EXCEPT ![cur].applied = TRUE]
               /\ pc' = "make_commit"
               /\ exc' = exc
          ELSE /\ pc' = "raised"
               /\ exc' = "apply_patch raised"
               /\ UNCHANGED work
    /\ UNCHANGED <<rev, runs, pr_type, fs, ret, github_env, cur, output_dir, out, try_n, probes,
                   remote, jsonl, issue_collection, userdata, env_file,
                   ref_id, lst, log,
                   user_collection>>

\* 3) make_commit (commit_only.py:109-133), called by the openhands_resolver
\* revision: git add and git commit; a non-zero exit of either raises
\* RuntimeError.
MakeCommit ==
    /\ pc = "make_commit"
    /\ rev = "openhands_resolver"
    /\ \E res \in {"add_failed", "commit_failed", "ok"} :
          /\ work' = [work EXCEPT
                ![cur].committed = (res = "ok"),
                ![cur].git = IF res = "add_failed"
                             THEN Append(@, <<"add", FALSE>>)
                             ELSE @ \o << <<"add", TRUE>>, <<"commit", res = "ok">> >>]
          /\ pc' = IF res = "ok" THEN "prepare" ELSE "raised"
          /\ exc' = IF res = "ok" THEN exc
                    ELSE IF res = "add_failed" THEN "Failed to add files to git"
                    ELSE "Failed to commit changes"
    /\ try_n' = 1
    /\ UNCHANGED <<rev, runs, pr_type, fs, ret, github_env, cur, output_dir, out, probes, remote,
                   jsonl, issue_collection, userdata, env_file, ref_id, lst, log,
                   user_collection>>

\* 3) make_commit_with_summary, called by the src/resolver revision
\* (resolve_issue.py:667).  Its module resolver/send_pull_request.py is not
\* part of the sources; by spec.md section 4.4 and the tests
\* (tests/test_send_pull_request.py:263-360) it stages, raises on a tree
\* without changes or a failed commit, and commits otherwise.
MakeCommitWithSummary ==
    /\ pc = "make_commit"
    /\ rev = "resolver"
    /\ \E res \in {"add_failed", "no_changes", "commit_failed", "ok"} :
          /\ work' = [work EXCEPT
                ![cur].committed = (res = "ok"),
                ![cur].git = IF res = "add_failed"
                             THEN Append(@, <<"add", FALSE>>)
                             ELSE IF res = "no_changes"
                             THEN Append(@, <<"add", TRUE>>)
                             ELSE @ \o << <<"add", TRUE>>, <<"commit", res = "ok">> >>]
          /\ pc' = IF res = "ok" THEN "prepare" ELSE "raised"
          /\ exc' = IF res = "ok" THEN exc
                    ELSE IF res = "add_failed" THEN "Failed to add files to git"
                    ELSE IF res = "no_changes"
                    THEN "ERROR: Openhands failed to make code changes."
                    ELSE "Failed to commit changes"
    /\ try_n' = 1
    /\ UNCHANGED <<rev, runs, pr_type, fs, ret, github_env, cur, output_dir, out, probes, remote,
                   jsonl, issue_collection, userdata, env_file, ref_id, lst, log,
                   user_collection>>

\* --------------------------------------------------- prepare_branch_and_push
\* The values of pr_type prepare_branch_and_push accepts
\* (resolve_issue.py:708).
ValidPrTypes == {"branch", "draft", "ready"}

\* Faulty variant of PrTypeIsValid: the argument is not validated.
PrTypeIsValid_Unchecked(t) == TRUE

\* pr_type in ["branch", "draft", "ready"] (resolve_issue.py:708).
PrTypeIsValid(t) == t \in ValidPrTypes

\* Entry of prepare_branch_and_push (resolve_issue.py:708-721,
\* resolve_issues.py:146-159): the mode is validated before anything else.
ValidatePrType ==
    /\ pc = "prepare"
    /\ IF PrTypeIsValid(pr_type)
       THEN /\ pc' = "probe"
            /\ exc' = exc
       ELSE /\ pc' = "raised"
            /\ exc' = "Invalid pr_type"
    /\ try_n' = 1
    /\ UNCHANGED <<rev, runs, pr_type, fs, ret, github_env, cur, output_dir, out, work, probes,
                   remote, jsonl, issue_collection, userdata, env_file,
                   ref_id, lst, log, user_collection>>

\* What the remote can answer to GET /branches/{b}: 200 only for a branch it
\* holds, 404 only for one it does not hold, an error answer (rate limit,
\* server error) in both cases.
ProbeAnswers(b) ==
    IF remote[b] # Absent THEN {200, 500} ELSE {404, 500}

\* One evaluation of the while condition (resolve_issue.py:724-726,
\* resolve_issues.py:162-164).
ProbeBranch ==
    /\ pc = "probe"
    /\ LET b == Candidate(rev, try_n) IN
       \E code \in ProbeAnswers(b) :
          /\ probes' = [probes EXCEPT ![cur] = Append(@, <<b, code>>)]
          /\ IF ProbeSaysExists(code)
             THEN /\ Candidate(rev, try_n + 1) \in Branches
                  /\ try_n' = try_n + 1
                  /\ pc' = "probe"
             ELSE /\ try_n' = try_n
                  /\ pc' = "default_branch"
    /\ UNCHANGED <<rev, runs, pr_type, fs, ret, exc, github_env, cur, output_dir, out, work, remote, jsonl,
                   issue_collection, userdata, env_file, ref_id, lst, log,
                   user_collection>>

\* requests.get(base_url); raise_for_status() (resolve_issue.py:729-731).
GetDefaultBranch ==
    /\ pc = "default_branch"
    /\ \E ok \in BOOLEAN :
          /\ pc' = IF ok THEN "checkout" ELSE "raised"
          /\ exc' = IF ok THEN exc ELSE "raise_for_status"
    /\ UNCHANGED <<rev, runs, pr_type, fs, ret, github_env, cur, output_dir, out, work, try_n, probes,
                   remote, jsonl, issue_collection, userdata, env_file,
                   ref_id, lst, log,
                   user_collection>>

\* Faulty variant of CheckoutBranch: the exit code of git checkout -b is not
\* checked, the push follows a failed branch creation.
CheckoutBranch_ExitIgnored ==
    /\ pc = "checkout"
    /\ \E ok \in BOOLEAN :
          work' = [work EXCEPT
                     ![cur].local_branch = Candidate(rev, try_n),
                     ![cur].git = Append(@, <<"checkout_b", ok>>)]
    /\ pc' = "push"
    /\ UNCHANGED <<rev, runs, pr_type, fs, ret, exc, github_env, cur, output_dir, out, try_n, probes,
                   remote, jsonl, issue_collection, userdata, env_file,
                   ref_id, lst, log,
                   user_collection>>

\* git checkout -b {branch_name} (resolve_issue.py:734-742).
CheckoutBranch ==
    /\ pc = "checkout"
    /\ \E ok \in BOOLEAN :
          IF ok
          THEN /\ work' = [work EXCEPT ![cur].local_branch = Candidate(rev, try_n),
                                       ![cur].git = Append(@, <<"checkout_b", TRUE>>)]
               /\ pc' = "push"
               /\ exc' = exc
          ELSE /\ pc' = "raised"
               /\ exc' = "Failed to create a new branch"
               /\ work' = [work EXCEPT ![cur].git = Append(@, <<"checkout_b", FALSE>>)]
    /\ UNCHANGED <<rev, runs, pr_type, fs, ret, github_env, cur, output_dir, out, try_n, probes,
                   remote, jsonl, issue_collection, userdata, env_file,
                   ref_id, lst, log,
                   user_collection>>

\* A push without --force of the attempt's commit is accepted for a new
\* branch, and for a branch of an earlier run when it fast-forwards; the
\* branch the other attempt of this run has pushed holds a diverging commit
\* and the push is rejected.
PushMayBeAccepted(b) == remote[b] \in {Absent, PreExisting}

\* Faulty variant of PushBranch: the exit code of git push is not checked.
PushBranch_ExitIgnored ==
    /\ pc = "push"
    /\ LET b == work[cur].local_branch IN
       \E ok \in BOOLEAN :
          IF ok /\ PushMayBeAccepted(b)
          THEN /\ remote' = [remote EXCEPT ![b] = cur]
               /\ work' = [work EXCEPT ![cur].pushed = TRUE,
                                       ![cur].git = Append(@, <<"push", TRUE>>)]
          ELSE /\ remote' = remote
               /\ work' = [work EXCEPT ![cur].git = Append(@, <<"push", FALSE>>)]
    /\ pc' = "rev_parse"
    /\ UNCHANGED <<rev, runs, pr_type, fs, ret, exc, github_env, cur, output_dir, out, try_n, probes,
                   jsonl, issue_collection, userdata, env_file, ref_id, lst, log,
                   user_collection>>

\* git push ... {branch_name} (resolve_issue.py:754-764).
PushBranch ==
    /\ pc = "push"
    /\ LET b == work[cur].local_branch IN
       \E ok \in BOOLEAN :
          IF ok /\ PushMayBeAccepted(b)
          THEN /\ remote' = [remote EXCEPT ![b] = cur]
               /\ work' = [work EXCEPT ![cur].pushed = TRUE,
                                       ![cur].git = Append(@, <<"push", TRUE>>)]
               /\ pc' = "rev_parse"
               /\ exc' = exc
          ELSE /\ pc' = "raised"
               /\ exc' = "Failed to push changes to the remote repository"
               /\ remote' = remote
               /\ work' = [work EXCEPT ![cur].git = Append(@, <<"push", FALSE>>)]
    /\ UNCHANGED <<rev, runs, pr_type, fs, ret, github_env, cur, output_dir, out, try_n, probes,
                   jsonl, issue_collection, userdata, env_file, ref_id, lst, log,
                   user_collection>>

\* HEAD of the working copy: the new commit, or the base commit when
\* nothing was committed.
HeadOf(i) == IF work[i].committed
             THEN (IF i = 1 THEN "commit1" ELSE "commit2")
             ELSE "base"

\* End of get_new_commit_hash (resolve_issue.py:675-689): branch_name and
\* the hash of HEAD are stored in the resolver output; the coordinator goes
\* on with the second attempt, or with the persisting.
RevParse ==
    /\ pc = "rev_parse"
    /\ out' = [out EXCEPT
                 ![cur].branch_name = IF work[cur].pushed
                                      THEN work[cur].local_branch ELSE NoBranch,
                 ![cur].commit_hash = HeadOf(cur)]
    /\ IF cur = 1
       THEN /\ cur' = 2
            /\ pc' = "init_repo"
       ELSE /\ cur' = cur
            /\ pc' = "persist"
    /\ try_n' = 1
    /\ UNCHANGED <<rev, runs, pr_type, fs, ret, exc, github_env, output_dir, work, probes, remote, jsonl,
                   issue_collection, userdata, env_file, ref_id, lst, log,
                   user_collection>>


\* ---------------------------------------------------------- send_to_firebase
\* What model_dump_json writes to output{i}/output.jsonl
\* (resolve_issue.py:288-292).
Dump(o) == [written |-> TRUE, git_patch |-> o.git_patch, success |-> o.success,
            branch_name |-> o.branch_name, commit_hash |-> o.commit_hash]

\* Faulty variant of InitialRecord: the record is created with a winner.
InitialRecord_WithWinner(r, o1, o2) ==
    [IssueData(PersistedStatus(r, o1, o2), o1, o2) EXCEPT !.winner = "modelA"]

\* The document written for a run: status by the patches, winner None.
InitialRecord(r, o1, o2) == IssueData(PersistedStatus(r, o1, o2), o1, o2)

\* Lines 287-373 / 385-419: both outputs are appended to their output.jsonl,
\* then the record is written to issue_collection under a fresh uuid4.
PersistRecord ==
    /\ pc = "persist"
    /\ jsonl' = [i \in Attempts |-> Dump(out[i])]
    /\ \E id \in UUIDs :
          /\ issue_collection[id] = NoDoc
          /\ ref_id' = id
          /\ issue_collection' =
                [issue_collection EXCEPT ![id] = InitialRecord(rev, out[1], out[2])]
    /\ pc' = "signal"
    /\ UNCHANGED <<rev, runs, pr_type, fs, ret, exc, github_env, cur, output_dir, out, work, try_n, probes,
                   remote, userdata, env_file, lst, log,
                   user_collection>>

\* user_ref.set(user_data, merge=True) (resolve_issue.py:423-453): the entry
\* of the new comparison is merged into the owner's selections.
MergeSelection(u, id) ==
    [exists |-> TRUE,
     sel |-> [u.sel EXCEPT ![id] =
                 [present |-> TRUE, choice |-> NULL, isLatest |-> TRUE]]]

\* Faulty variant of Signal: the coordinator writes the status of the record
\* a second time when it signals.
Signal_RewritesStatus ==
    /\ pc = "signal"
    /\ LET st == PersistedStatus(rev, out[1], out[2]) IN
       /\ userdata' = IF st = "pending" THEN MergeSelection(userdata, ref_id)
                                        ELSE userdata
       /\ issue_collection' = [issue_collection EXCEPT ![ref_id].status = st]
       /\ IF github_env
          THEN /\ env_file' = env_file \o SignalLines(st, ref_id)
               /\ pc' = "done"
               /\ exc' = exc
          ELSE /\ env_file' = env_file
               /\ pc' = "raised"
               /\ exc' = "GITHUB_ENV environment variable is not set."
    /\ UNCHANGED <<rev, runs, pr_type, fs, ret, github_env, cur, output_dir, out, work, try_n, probes,
                   remote, jsonl, ref_id, lst, log,
                   user_collection>>

\* Lines 375-383 (failed) and 421-462 (pending): the pending path merges the
\* user's selection entry first; both paths raise RuntimeError when
\* GITHUB_ENV is unset, and append their lines otherwise.
Signal ==
    /\ pc = "signal"
    /\ LET st == PersistedStatus(rev, out[1], out[2]) IN
       /\ userdata' = IF st = "pending" THEN MergeSelection(userdata, ref_id)
                                        ELSE userdata
       /\ IF github_env
          THEN /\ env_file' = env_file \o SignalLines(st, ref_id)
               /\ pc' = "done"
               /\ exc' = exc
          ELSE /\ env_file' = env_file
               /\ pc' = "raised"
               /\ exc' = "GITHUB_ENV environment variable is not set."
    /\ UNCHANGED <<rev, runs, pr_type, fs, ret, github_env, cur, output_dir, out, work, try_n, probes,
                   remote, jsonl, issue_collection, ref_id, lst, log,
                   user_collection>>

\* ------------------------------------------------- external decision process
\* Not code of this subsystem: the arena front end records the human's
\* choice on a pending record (spec.md section 3: winner is written exactly
\* once, by an external actor, together with status = completed).
ExternalDecision ==
    /\ \E id \in UUIDs, w \in {"modelA", "modelB", "tie"} :
          /\ issue_collection[id].status = "pending"
          /\ issue_collection[id].winner = NULL
          /\ issue_collection' =
                [issue_collection EXCEPT ![id].status = "completed",
                                         ![id].winner = w]
    /\ UNCHANGED <<rev, runs, pr_type, fs, ret, exc, github_env, pc, cur, output_dir, out, work, try_n,
                   probes, remote, jsonl, userdata, env_file, ref_id, lst, log,
                   user_collection>>

\* ------------------------------------------------------------- coordinator
Next ==
    \/ \E i \in Attempts : StartAttempt(i)
    \/ \E i \in Attempts : FinishAttempt(i)
    \/ \E i \in Attempts : AttemptRaises(i)
    \/ BeginSend
    \/ InitializeRepo
    \/ ApplyPatch
    \/ MakeCommit
    \/ MakeCommitWithSummary
    \/ ValidatePrType
    \/ ProbeBranch
    \/ GetDefaultBranch
    \/ CheckoutBranch
    \/ PushBranch
    \/ RevParse
    \/ PersistRecord
    \/ Signal
    \/ ExternalDecision

Spec == Init /\ [][Next]_vars


\* ------------------------------------------------- get_selected_model_number
\* Faulty variant of ShouldAct: the status of the document is not looked at.
ShouldAct_WinnerOnly(doc) == doc.winner # NULL

\* The condition under which on_snapshot acts (listen_for_decision.py:103-106).
ShouldAct(doc) == doc.winner # NULL /\ doc.status = "completed"

\* Faulty variant of TranslateWinner: a tie selects the second model.
TranslateWinner_TieSecond(w) ==
    IF w = "modelA" THEN "1"
    ELSE IF w = "modelB" THEN "2"
    ELSE IF w = "tie" THEN "2"
    ELSE NULL

\* listen_for_decision.py:110-117: None when no branch of the if matches.
TranslateWinner(w) ==
    IF w = "modelA" THEN "1"
    ELSE IF w = "modelB" THEN "2"
    ELSE IF w = "tie" THEN "1"
    ELSE NULL

\* listen_for_decision.py:119-121: an unknown winner defaults to model 1.
Selected(w) == IF TranslateWinner(w) = NULL THEN "1" ELSE TranslateWinner(w)

\* listen_for_decision.py:139-177 (src/resolver): every selection present is
\* marked not latest, the comparison's own entry gets the choice and
\* isLatest = True; a missing user document is created with that one entry.
UpdateSelections(u, id, w) ==
    IF u.exists
    THEN [exists |-> TRUE,
          sel |-> [x \in UUIDs |->
                      IF x = id
                      THEN [present |-> TRUE, choice |-> w, isLatest |-> TRUE]
                      ELSE IF u.sel[x].present
                           THEN [u.sel[x] EXCEPT !.isLatest = FALSE]
                           ELSE u.sel[x]]]
    ELSE [exists |-> TRUE,
          sel |-> [x \in UUIDs |->
                      IF x = id
                      THEN [present |-> TRUE, choice |-> w, isLatest |-> TRUE]
                      ELSE NoSel]]

\* openhands_resolver/listen_for_decision.py:171-177: one update of the
\* comparison's own entry in user_collection.
UpdateOwnSelection(u, id, w) ==
    [u EXCEPT !.sel[id] = [present |-> TRUE, choice |-> w, isLatest |-> TRUE]]

\* The listener process starts: doc_ref.on_snapshot(on_snapshot), then
\* await event.wait() (listen_for_decision.py:86-195).
ListenerStart ==
    /\ lst.pc = "idle"
    /\ \E id \in UUIDs, e \in BOOLEAN :
          lst' = [lst EXCEPT !.pc = "waiting", !.uuid = id, !.github_env = e]
    /\ UNCHANGED <<rev, runs, pr_type, fs, ret, exc, github_env, pc, cur, output_dir, out, work, try_n,
                   probes, remote, jsonl, issue_collection, userdata,
                   env_file, ref_id, log, user_collection>>

\* Faulty variant of OnSnapshot: the except block logs the error of the
\* update of the user record and raises it again, so that the event is not
\* set.
OnSnapshot_UpdateErrorRaised(doc) ==
    /\ lst.pc = "waiting"
    /\ lst.delivered < MaxSnapshots
    /\ IF ~ShouldAct(doc)
       THEN /\ lst' = [lst EXCEPT !.delivered = @ + 1, !.last = doc]
            /\ UNCHANGED <<env_file, userdata, user_collection, log>>
       ELSE LET unknown == TranslateWinner(doc.winner) = NULL
                log1 == IF unknown THEN Append(log, "Unknown winner value") ELSE log
            IN
            IF ~lst.github_env
            THEN /\ lst' = [lst EXCEPT !.delivered = @ + 1, !.last = doc]
                 /\ log' = log1
                 /\ UNCHANGED <<env_file, userdata, user_collection>>
            ELSE /\ env_file' = Append(env_file, <<"SELECTED", Selected(doc.winner)>>)
                 /\ \E raises \in BOOLEAN :
                       IF raises \/ (rev = "openhands_resolver" /\ ~user_collection.exists)
                       THEN /\ log' = Append(log1, "Error updating user_collection")
                            /\ lst' = [lst EXCEPT !.delivered = @ + 1, !.last = doc]
                            /\ UNCHANGED <<userdata, user_collection>>
                       ELSE /\ log' = log1
                            /\ lst' = [lst EXCEPT !.delivered = @ + 1, !.last = doc,
                                                  !.event = TRUE]
                            /\ IF rev = "resolver"
                               THEN /\ userdata' = UpdateSelections(userdata, lst.uuid, doc.winner)
                                    /\ UNCHANGED user_collection
                               ELSE /\ user_collection' =
                                          UpdateOwnSelection(user_collection, lst.uuid, doc.winner)
                                    /\ UNCHANGED userdata
    /\ UNCHANGED <<rev, runs, pr_type, fs, ret, exc, github_env, pc, cur, output_dir, out, work, try_n,
                   probes, remote, jsonl, issue_collection, ref_id>>

\* One call of on_snapshot with the document data doc, made by the watcher
\* thread while the listener is subscribed (listen_for_decision.py:98-187).
\* The update of the user record may raise; the exception is logged.
OnSnapshot(doc) ==
    /\ lst.pc = "waiting"
    /\ lst.delivered < MaxSnapshots
    /\ IF ~ShouldAct(doc)
       THEN /\ lst' = [lst EXCEPT !.delivered = @ + 1, !.last = doc]
            /\ UNCHANGED <<env_file, userdata, user_collection, log>>
       ELSE LET unknown == TranslateWinner(doc.winner) = NULL
                log1 == IF unknown THEN Append(log, "Unknown winner value") ELSE log
            IN
            IF ~lst.github_env
            THEN \* RuntimeError leaves the callback; the event is not set
                 /\ lst' = [lst EXCEPT !.delivered = @ + 1, !.last = doc]
                 /\ log' = log1
                 /\ UNCHANGED <<env_file, userdata, user_collection>>
            ELSE /\ env_file' = Append(env_file, <<"SELECTED", Selected(doc.winner)>>)
                 /\ lst' = [lst EXCEPT !.delivered = @ + 1, !.last = doc,
                                       !.event = TRUE]
                 /\ \E raises \in BOOLEAN :
                       IF raises \/ (rev = "openhands_resolver" /\ ~user_collection.exists)
                       THEN /\ log' = Append(log1, "Error updating user_collection")
                            /\ UNCHANGED <<userdata, user_collection>>
                       ELSE /\ log' = log1
                            /\ IF rev = "resolver"
                               THEN /\ userdata' = UpdateSelections(userdata, lst.uuid, doc.winner)
                                    /\ UNCHANGED user_collection
                               ELSE /\ user_collection' =
                                          UpdateOwnSelection(user_collection, lst.uuid, doc.winner)
                                    /\ UNCHANGED userdata
    /\ UNCHANGED <<rev, runs, pr_type, fs, ret, exc, github_env, pc, cur, output_dir, out, work, try_n,
                   probes, remote, jsonl, issue_collection, ref_id>>

\* event.wait() returns once the event is set; the finally block
\* unsubscribes (listen_for_decision.py:194-197).
ListenerReturn ==
    /\ lst.pc = "waiting"
    /\ lst.event
    /\ lst' = [lst EXCEPT !.pc = "returned"]
    /\ UNCHANGED <<rev, runs, pr_type, fs, ret, exc, github_env, pc, cur, output_dir, out, work, try_n,
                   probes, remote, jsonl, issue_collection, userdata,
                   env_file, ref_id, log, user_collection>>

\* Document data a notification can carry.
DocData == [status : Statuses, winner : Winners]

\* The selection records earlier runs of send_to_firebase can have left.
EarlierUserdata ==
    {NoUser} \cup {MergeSelection(NoUser, id) : id \in UUIDs}
    \cup {MergeSelection(MergeSelection(NoUser, a), b) : a, b \in UUIDs}

\* user_collection/{owner} as the store can hold it when a listener of the
\* openhands_resolver revision starts: no document, a document without
\* selections, or one in which an earlier run of that listener has recorded
\* a choice (openhands_resolver/listen_for_decision.py:171-177).
EarlierUserCollection ==
    {NoUser, [NoUser EXCEPT !.exists = TRUE]}
    \cup {UpdateOwnSelection([NoUser EXCEPT !.exists = TRUE], id, "modelA") :
              id \in UUIDs}

\* The listener is a process of its own: it starts on the store as earlier
\* runs have left it.
InitListening ==
    /\ rev \in Revisions
    /\ github_env = TRUE
    /\ pc = "start"
    /\ cur = 1
    /\ output_dir = NULL
    /\ out = [i \in Attempts |-> InitOut]
    /\ work = [i \in Attempts |-> InitWork]
    /\ try_n = 1
    /\ probes = [i \in Attempts |-> << >>]
    /\ remote = [b \in Branches |-> Absent]
    /\ jsonl = [i \in Attempts |-> NoDump]
    /\ issue_collection = [u \in UUIDs |-> NoDoc]
    /\ userdata \in EarlierUserdata
    /\ user_collection \in
          (IF rev = "resolver" THEN {NoUser} ELSE EarlierUserCollection)
    /\ env_file = << >>
    /\ ref_id = 0
    /\ lst = InitListener
    /\ log = << >>
    /\ pr_type = "draft"
    /\ exc = NULL
    /\ runs = NoRuns
    /\ fs = NoFs
    /\ ret = << >>

NextListener ==
    \/ ListenerStart
    \/ \E doc \in DocData : OnSnapshot(doc)
    \/ ListenerReturn

ListenerSpec == InitListening /\ [][NextListener]_vars

\* The event loop is running: once the event is set, event.wait() returns
\* (listen_for_decision.py:194-197).  Nothing obliges the watcher thread to
\* deliver notifications.
ListenerLiveSpec == ListenerSpec /\ WF_vars(ListenerReturn)

\* ------------------------------------------------------- the arena as a whole
\* What a notification carries for the document of comparison id: the
\* document as it stands in issue_collection.
DocOf(id) == [status |-> issue_collection[id].status,
              winner |-> issue_collection[id].winner]

\* The listener is run (listen_for_decision.py main, with some --uuid) once
\* the coordinator has returned, next to the external decision process; it
\* is notified of the document it watches.
ArenaListener ==
    /\ pc = "done"
    /\ \/ ListenerStart
       \/ /\ lst.uuid \in UUIDs
          /\ issue_collection[lst.uuid] # NoDoc
          /\ OnSnapshot(DocOf(lst.uuid))
       \/ ListenerReturn

ArenaNext == Next \/ ArenaListener

ArenaSpec == Init /\ [][ArenaNext]_vars


\* ------------------------------------------- prepare_branch_and_push, called
\* Values of the pr_type argument a caller can pass.
PrTypes == ValidPrTypes \cup {"invalid", ""}

\* A working copy in which the patch of an attempt has been committed.
CommittedWork ==
    [InitWork EXCEPT !.dir = PatchedRepoDir(OutputDir(1)),
                     !.inited = TRUE, !.applied = TRUE, !.committed = TRUE,
                     !.git = << <<"checkout", TRUE>>, <<"add", TRUE>>,
                                <<"commit", TRUE>> >>]

\* prepare_branch_and_push(patch_dir, pr_type) is called on a committed
\* working copy with any pr_type, as tests/test_resolve_issue.py:116-133
\* calls it, against a remote holding any branches of earlier runs.
InitPrepare ==
    /\ rev \in Revisions
    /\ github_env = TRUE
    /\ pc = "prepare"
    /\ cur = 1
    /\ output_dir = OutputDir(1)
    /\ out = [i \in Attempts |->
                IF i = 1
                THEN [InitOut EXCEPT !.state = "returned", !.git_patch = "diff",
                                     !.output_dir = OutputDir(1)]
                ELSE InitOut]
    /\ work = [i \in Attempts |-> IF i = 1 THEN CommittedWork ELSE InitWork]
    /\ try_n = 1
    /\ probes = [i \in Attempts |-> << >>]
    /\ \E S \in SUBSET (0..(MaxBranch - 1)) :
          remote = [b \in Branches |-> IF b \in S THEN PreExisting ELSE Absent]
    /\ jsonl = [i \in Attempts |-> NoDump]
    /\ issue_collection = [u \in UUIDs |-> NoDoc]
    /\ userdata = NoUser
    /\ env_file = << >>
    /\ ref_id = 0
    /\ lst = InitListener
    /\ log = << >>
    /\ user_collection = NoUser
    /\ pr_type \in PrTypes
    /\ exc = NULL
    /\ runs = NoRuns
    /\ fs = NoFs
    /\ ret = << >>

PrepareNext ==
    \/ ValidatePrType
    \/ ProbeBranch
    \/ GetDefaultBranch
    \/ CheckoutBranch
    \/ PushBranch

PrepareSpec == InitPrepare /\ [][PrepareNext]_vars


\* ------------------------------------------------------------ initialize_repo
\* Number of calls of the function made in a row.
MaxCalls == 2

\* Values of the base_commit argument (None, or a commit).
BaseCommits == {NULL} \cup Commits

\* dest_dir, the value initialize_repo returns (commit_only.py:68, 89).
DestDir == "output_dir/patches/{issue_type}_{issue_number}"

\* Outcome of a call: the file system it leaves, and what it returned or the
\* message of the exception it raised.
Outcome(f, r) == [fs |-> f, ret |-> r]

\* Faulty variant of rmtree: the previous working copy is left in place.
rmtree_Kept(f) == f

\* shutil.rmtree(dest_dir) (commit_only.py:73).
rmtree(f) == [f EXCEPT !.dest = Missing]

\* git -C dest_dir checkout base_commit, exit code 0 (commit_only.py:79-83):
\* the commit is checked out, local modifications of the tree are kept.
Checkout(d, c) == [head |-> c, tree |-> IF d.tree = "dirty" THEN "dirty" ELSE c]

\* Faulty variant of initialize_repo: the previous working copy is removed
\* before the source is looked for.
initialize_repo_RemovesFirst(f, base_commit, checkout_ok) ==
    LET f1 == IF f.dest # Missing THEN rmtree(f) ELSE f IN
    IF f1.repo = Missing
    THEN Outcome(f1, "Source directory does not exist")
    ELSE LET f2 == [f1 EXCEPT !.dest = f1.repo] IN
         IF base_commit = NULL THEN Outcome(f2, DestDir)
         ELSE IF checkout_ok
         THEN Outcome([f2 EXCEPT !.dest = Checkout(f2.dest, base_commit)], DestDir)
         ELSE Outcome(f2, "Failed to check out commit")

\* initialize_repo(output_dir, issue_number, issue_type, base_commit)
\* (commit_only.py:66-89) on the file system f; checkout_ok is the outcome
\* of git checkout.  shutil.copytree raises when dest_dir exists.
initialize_repo(f, base_commit, checkout_ok) ==
    IF f.repo = Missing
    THEN Outcome(f, "Source directory does not exist")
    ELSE LET f1 == IF f.dest # Missing THEN rmtree(f) ELSE f IN
         IF f1.dest # Missing
         THEN Outcome(f1, "FileExistsError")
         ELSE LET f2 == [f1 EXCEPT !.dest = f1.repo] IN
              IF base_commit = NULL THEN Outcome(f2, DestDir)
              ELSE IF checkout_ok
              THEN Outcome([f2 EXCEPT !.dest = Checkout(f2.dest, base_commit)],
                           DestDir)
              ELSE Outcome(f2, "Failed to check out commit")

\* One call of initialize_repo; the call is recorded with its argument, the
\* file system it found and its outcome.
InitializeRepoCall ==
    /\ Len(ret) < MaxCalls
    /\ \E bc \in BaseCommits, ok \in BOOLEAN :
          LET r == initialize_repo(fs, bc, ok) IN
          /\ fs' = r.fs
          /\ ret' = Append(ret, [base_commit |-> bc, checkout_ok |-> ok,
                                 before |-> fs, result |-> r.ret])
    /\ UNCHANGED <<rev, runs, pr_type, exc, github_env, pc, cur, output_dir, out,
                   work, try_n, probes, remote, jsonl, issue_collection,
                   userdata, env_file, ref_id, lst, log, user_collection>>

\* Everything but fs and ret, for a function called on its own.
NothingRunning ==
    /\ rev = "resolver"
    /\ github_env = TRUE
    /\ pc = "start"
    /\ cur = 1
    /\ output_dir = NULL
    /\ out = [i \in Attempts |-> InitOut]
    /\ work = [i \in Attempts |-> InitWork]
    /\ try_n = 1
    /\ probes = [i \in Attempts |-> << >>]
    /\ remote = [b \in Branches |-> Absent]
    /\ jsonl = [i \in Attempts |-> NoDump]
    /\ issue_collection = [u \in UUIDs |-> NoDoc]
    /\ userdata = NoUser
    /\ env_file = << >>
    /\ ref_id = 0
    /\ lst = InitListener
    /\ log = << >>
    /\ user_collection = NoUser
    /\ pr_type = "draft"
    /\ exc = NULL
    /\ runs = NoRuns

\* initialize_repo is called on an output directory whose repo may be
\* missing and whose patches directory may hold an earlier working copy or
\* other files.
InitRepo ==
    /\ NothingRunning
    /\ fs \in [repo : Checkouts \cup {Missing},
                dest : Checkouts \cup {Missing, Stale}]
    /\ ret = << >>

RepoNext == InitializeRepoCall

RepoSpec == InitRepo /\ [][RepoNext]_vars


\* ---------------------------------------------------------------- make_commit
\* The commit a successful git commit creates.
NewCommit == "c3"

\* The working tree has something to commit.
HasChanges(d) == d.tree = "dirty"

\* make_commit(repo_dir, issue, issue_type) (commit_only.py:109-133) on the
\* working copy d of file system f.  add_ok and commit_ok say whether git add
\* and git commit meet no failure of their own (index lock, hook, identity);
\* git commit also exits non-zero when nothing is staged.  There is no test
\* for changes between add and commit: both failures of git commit raise the
\* same RuntimeError.
make_commit(f, add_ok, commit_ok) ==
    IF ~add_ok
    THEN Outcome(f, "Failed to add files to git")
    ELSE IF ~commit_ok \/ ~HasChanges(f.dest)
    THEN Outcome(f, "Failed to commit changes")
    ELSE Outcome([f EXCEPT !.dest = [head |-> NewCommit, tree |-> NewCommit]],
                 NewCommit)

\* One call of make_commit on the working copy, recorded with the outcomes
\* of the git commands, the file system it found and its outcome.
MakeCommitCall ==
    /\ Len(ret) < MaxCalls
    /\ \E add_ok, commit_ok \in BOOLEAN :
          LET r == make_commit(fs, add_ok, commit_ok) IN
          /\ fs' = r.fs
          /\ ret' = Append(ret, [add_ok |-> add_ok, commit_ok |-> commit_ok,
                                 before |-> fs, result |-> r.ret])
    /\ UNCHANGED <<rev, runs, pr_type, exc, github_env, pc, cur, output_dir, out,
                   work, try_n, probes, remote, jsonl, issue_collection,
                   userdata, env_file, ref_id, lst, log, user_collection>>

\* make_commit is called on a working copy initialize_repo has made, with
\* or without changes in its tree.
InitCommit ==
    /\ NothingRunning
    /\ \E r \in Checkouts, d \in Checkouts :
          fs = [repo |-> r, dest |-> d]
    /\ ret = << >>

CommitNext == MakeCommitCall

CommitSpec == InitCommit /\ [][CommitNext]_vars


\* ------------------------------------------------- the commit message
\* The commit message of make_commit_with_summary, as the tests spell it out
\* (tests/test_resolve_issue_minimal.py:100-130,
\* tests/test_send_pull_request_minimal.py:160-190).  A message is the
\* sequence of its lines.

\* Output directories, as sequences of pieces of which the last is the last
\* character; << >> is the empty string.
ModelDirs == {<<"output", c>> : c \in {"1", "2", "3", "x"}} \cup {<< >>}

\* Values of result_explanation: None, "", JSON lists, other JSON values,
\* and text that is no JSON.
Explanations ==
    {NULL, "", "[\"A\",\"B\"]", "[]", "\"A\"", "{\"a\": 1}", "plain text"}

\* Durations in tenths of a second (1255 is 125.5 s); NoDuration is None.
NoDuration == -1
Durations == {NoDuration, 0, 9, 599, 600, 1205, 1255, 36007}

\* json.loads on the texts of Explanations: the list parsed, the str() of
\* any other value parsed, or JSONDecodeError.
JsonLoads(raw) ==
    CASE raw = "[\"A\",\"B\"]" -> [kind |-> "list", items |-> <<"A", "B">>, str |-> ""]
      [] raw = "[]" -> [kind |-> "list", items |-> << >>, str |-> ""]
      [] raw = "\"A\"" -> [kind |-> "value", items |-> << >>, str |-> "A"]
      [] raw = "{\"a\": 1}" -> [kind |-> "value", items |-> << >>, str |-> "{'a': 1}"]
      [] OTHER -> [kind |-> "JSONDecodeError", items |-> << >>, str |-> ""]

\* model_number = model_output_dir[-1] if model_output_dir else ''
ModelNumber(dir) == IF dir = << >> THEN "" ELSE dir[Len(dir)]

\* Faulty variant of NumberedLines: the items are numbered from 0.
NumberedLines_FromZero(items) ==
    [k \in 1..Len(items) |-> ToString(k - 1) \o ". " \o items[k]]

\* for i, item in enumerate(explanations, 1): message += f'\n{i}. {item}'
NumberedLines(items) ==
    [k \in 1..Len(items) |-> ToString(k) \o ". " \o items[k]]

\* The lines added for result_explanation.
SummaryLines(expl) ==
    IF ~Truthy(expl) THEN << >>
    ELSE <<"", "Summary of Changes:">> \o
         (LET j == JsonLoads(expl) IN
          IF j.kind = "list" THEN NumberedLines(j.items)
          ELSE IF j.kind = "value" THEN <<j.str>>
          ELSE <<expl>>)

\* The lines added for duration: int(duration // 60), int(duration % 60).
DurationLines(d) ==
    IF d = NoDuration \/ d = 0 THEN << >>
    ELSE <<"", "Duration: " \o ToString(d \div 600) \o "m "
                            \o ToString((d % 600) \div 10) \o "s">>

\* generate_commit_message(issue_type, issue_number, model_output_dir,
\* result_explanation, duration): the message, or the ValueError.
generate_commit_message(issue_type, issue_number, dir, expl, d) ==
    LET model_number == ModelNumber(dir)
        head == "Fix " \o issue_type \o " #" \o ToString(issue_number) \o " with "
    IN
    IF model_number \notin {"1", "2"}
    THEN [error |-> "Invalid model number", message |-> << >>]
    ELSE [error |-> NULL,
          message |-> <<head \o (IF model_number = "1" THEN "1st Model"
                                                       ELSE "2nd Model")>>
                      \o SummaryLines(expl) \o DurationLines(d)]

\* One call of the message builder, recorded with its arguments.
CommitMessageCall ==
    /\ Len(ret) < 1
    /\ \E t \in {"issue", "pr"}, dir \in ModelDirs, e \in Explanations,
          d \in Durations :
          ret' = Append(ret, [issue_type |-> t, dir |-> dir, expl |-> e,
                              duration |-> d,
                              result |-> generate_commit_message(t, 123, dir, e, d)])
    /\ UNCHANGED <<rev, runs, pr_type, exc, fs, github_env, pc, cur, output_dir, out,
                   work, try_n, probes, remote, jsonl, issue_collection,
                   userdata, env_file, ref_id, lst, log, user_collection>>

InitMessage ==
    /\ NothingRunning
    /\ fs = NoFs
    /\ ret = << >>

MessageNext == CommitMessageCall

MessageSpec == InitMessage /\ [][MessageNext]_vars


\* ------------------------------- prepare_branch_and_push, two runs at once
\* Run r evaluates the while condition once (resolve_issue.py:724-726): on
\* any answer but 200 it leaves the loop with the name probed.  The remote
\* answers every probe here: 200 for a branch it holds, 404 otherwise.
RunProbe(r) ==
    /\ runs[r].pc = "probe"
    /\ LET b == Candidate(rev, runs[r].attempt) IN
       \E code \in ProbeAnswers(b) \ {500} :
          IF ProbeSaysExists(code)
          THEN /\ Candidate(rev, runs[r].attempt + 1) \in Branches
               /\ runs' = [runs EXCEPT ![r].attempt = @ + 1]
          ELSE runs' = [runs EXCEPT ![r].pc = "default_branch",
                                    ![r].branch = b]
    /\ UNCHANGED <<rev, pr_type, fs, ret, exc, github_env, pc, cur,
                   output_dir, out, work, try_n, probes, remote, jsonl,
                   issue_collection, userdata, env_file, ref_id, lst, log,
                   user_collection>>

\* Run r asks for the default branch (resolve_issue.py:729-731).
RunGetDefaultBranch(r) ==
    /\ runs[r].pc = "default_branch"
    /\ \E ok \in BOOLEAN :
          runs' = [runs EXCEPT ![r].pc = IF ok THEN "checkout" ELSE "raised"]
    /\ UNCHANGED <<rev, pr_type, fs, ret, exc, github_env, pc, cur,
                   output_dir, out, work, try_n, probes, remote, jsonl,
                   issue_collection, userdata, env_file, ref_id, lst, log,
                   user_collection>>

\* Run r creates the branch in its working copy (resolve_issue.py:734-742).
RunCheckoutBranch(r) ==
    /\ runs[r].pc = "checkout"
    /\ \E ok \in BOOLEAN :
          runs' = [runs EXCEPT ![r].pc = IF ok THEN "push" ELSE "raised"]
    /\ UNCHANGED <<rev, pr_type, fs, ret, exc, github_env, pc, cur,
                   output_dir, out, work, try_n, probes, remote, jsonl,
                   issue_collection, userdata, env_file, ref_id, lst, log,
                   user_collection>>

\* Run r pushes its branch (resolve_issue.py:754-764): the push is rejected
\* when another run has pushed the name, whose commit it does not
\* fast-forward.
RunPushBranch(r) ==
    /\ runs[r].pc = "push"
    /\ LET b == runs[r].branch IN
       \E ok \in BOOLEAN :
          IF ok /\ PushMayBeAccepted(b)
          THEN /\ remote' = [remote EXCEPT ![b] = r]
               /\ runs' = [runs EXCEPT ![r].pc = "pushed"]
          ELSE /\ remote' = remote
               /\ runs' = [runs EXCEPT ![r].pc = "raised"]
    /\ UNCHANGED <<rev, pr_type, fs, ret, exc, github_env, pc, cur,
                   output_dir, out, work, try_n, probes, jsonl,
                   issue_collection, userdata, env_file, ref_id, lst, log,
                   user_collection>>

\* Two runs for the same issue have entered prepare_branch_and_push with a
\* valid pr_type; the remote holds the branches of earlier runs, the bare
\* name first.
InitRace ==
    /\ rev = "resolver"
    /\ github_env = TRUE
    /\ pc = "start"
    /\ cur = 1
    /\ output_dir = NULL
    /\ out = [i \in Attempts |-> InitOut]
    /\ work = [i \in Attempts |-> InitWork]
    /\ try_n = 1
    /\ probes = [i \in Attempts |-> << >>]
    /\ \E n \in 0..MaxBranch :
          remote = [b \in Branches |-> IF b < n THEN PreExisting ELSE Absent]
    /\ jsonl = [i \in Attempts |-> NoDump]
    /\ issue_collection = [u \in UUIDs |-> NoDoc]
    /\ userdata = NoUser
    /\ user_collection = NoUser
    /\ env_file = << >>
    /\ ref_id = 0
    /\ lst = InitListener
    /\ log = << >>
    /\ pr_type = "draft"
    /\ exc = NULL
    /\ fs = NoFs
    /\ ret = << >>
    /\ runs = [r \in Runs |-> [NoRun EXCEPT !.pc = "probe"]]

RaceNext ==
    \E r \in Runs :
       \/ RunProbe(r)
       \/ RunGetDefaultBranch(r)
       \/ RunCheckoutBranch(r)
       \/ RunPushBranch(r)

RaceSpec == InitRace /\ [][RaceNext]_vars

\* ---------------------------------------------------------------- apply_patch
\* Largest number of lines of a text file.
MaxLines == 2

LF == "\n"
CRLF == "\r\n"

\* A text file: its logical lines, its line terminator, and whether the
\* final line is terminated.  A file without any terminator is given LF.
TextFiles ==
    {t \in [lines : UNION {[1..n -> {"a", "b"}] : n \in 0..MaxLines},
            eol : {LF, CRLF}, final : BOOLEAN] :
        /\ t.lines = << >> => ~t.final
        /\ (Len(t.lines) <= 1 /\ ~t.final) => t.eol = LF}

\* The content of a text file, as the sequence of its lines and terminators.
RECURSIVE Bytes(_)
Bytes(t) ==
    IF t.lines = << >> THEN << >>
    ELSE IF Len(t.lines) = 1
    THEN (IF t.final THEN <<t.lines[1], t.eol>> ELSE <<t.lines[1]>>)
    ELSE <<t.lines[1], t.eol>> \o Bytes([t EXCEPT !.lines = Tail(@)])

\* Detection of the line endings of the original file
\* (commit_only.py:37-42): None when the content holds no terminator.
DetectNewline(content) ==
    IF \E k \in 1..Len(content) : content[k] = CRLF THEN CRLF
    ELSE IF \E k \in 1..Len(content) : content[k] = LF THEN LF
    ELSE NULL

\* f.readlines() of a file opened with newline=nl: the content cut after
\* every terminator nl, each line here without that terminator; line holds
\* what was read of the current line.  With nl = None nothing is left to cut
\* in a content without terminators.
RECURSIVE readlines(_, _, _)
readlines(content, nl, line) ==
    IF content = << >> THEN (IF line = << >> THEN << >> ELSE <<line>>)
    ELSE IF Head(content) = nl
    THEN <<line>> \o readlines(Tail(content), nl, << >>)
    ELSE readlines(Tail(content), nl, Append(line, Head(content)))

\* The strings of a line put together.
RECURSIVE Join(_)
Join(line) ==
    IF line = << >> THEN "" ELSE Head(line) \o Join(Tail(line))

\* x.strip(newline): the carriage returns and line feeds at both ends of the
\* line are removed, those inside are kept; the result is one string.
RECURSIVE strip(_)
strip(line) ==
    IF line = << >> THEN ""
    ELSE IF Head(line) \in {LF, CRLF} THEN strip(Tail(line))
    ELSE IF line[Len(line)] \in {LF, CRLF}
    THEN strip(SubSeq(line, 1, Len(line) - 1))
    ELSE Join(line)

\* split_content = [x.strip(newline) for x in f.readlines()]
\* (commit_only.py:44-45): the lines without their terminators.
SplitContent(content) ==
    LET lines == readlines(content, DetectNewline(content), << >>) IN
    [k \in 1..Len(lines) |-> strip(lines[k])]

\* apply_diff(diff, split_content) for the diff of the original against the
\* text file b: the logical lines of b (spec.md section 4.2; the patching
\* module is not among the sources).
apply_diff(split_content, b) == b.lines

\* with open(new_path, "w", newline=newline): print(line, file=f) for every
\* line (commit_only.py:58-61): each line is followed by the terminator, the
\* platform's LF when none was detected.
RECURSIVE WriteLines(_, _)
WriteLines(lines, newline) ==
    IF lines = << >> THEN << >>
    ELSE <<lines[1], IF newline = NULL THEN LF ELSE newline>>
         \o WriteLines(Tail(lines), newline)

\* apply_patch(repo_dir, patch) (commit_only.py:11-64) for a patch that is
\* the unified diff of the file's content against the text file b; the diff
\* of equal contents has no file section and nothing is written.
apply_patch(content, b) ==
    IF content = Bytes(b) THEN content
    ELSE LET newline == DetectNewline(content) IN
         WriteLines(apply_diff(SplitContent(content), b), newline)

\* The terminator apply_patch will write for a file of this content.
WrittenNewline(content) ==
    IF DetectNewline(content) = NULL THEN LF ELSE DetectNewline(content)

\* One call of apply_patch with the diff of the file against some text file
\* b of the same line-ending convention.
ApplyPatchCall ==
    /\ Len(ret) < MaxCalls
    /\ \E b \in TextFiles :
          /\ b.eol = WrittenNewline(fs.file)
          /\ fs' = [file |-> apply_patch(fs.file, b)]
          /\ ret' = Append(ret, [before |-> fs, b |-> b])
    /\ UNCHANGED <<rev, runs, pr_type, exc, github_env, pc, cur, output_dir, out,
                   work, try_n, probes, remote, jsonl, issue_collection,
                   userdata, env_file, ref_id, lst, log, user_collection>>

\* The working directory holds the text file A.
InitPatch ==
    /\ NothingRunning
    /\ \E a \in TextFiles : fs = [file |-> Bytes(a)]
    /\ ret = << >>

PatchNext == ApplyPatchCall

PatchSpec == InitPatch /\ [][PatchNext]_vars


\* ------------------------------------------- apply_patch, file sections
\* Largest number of file sections of a patch.
MaxSections == 2

\* Paths are sequences of components.  The /dev/null sentinel, and the
\* absent (None or empty) path of a header.
DevNull == <<"/dev/null">>
NoPath == << >>

\* The files a working directory may hold, relative to repo_dir.
FilePaths == {<<"f.txt">>, <<"a", "f.txt">>, <<"d", "n.txt">>}

\* diff.header.old_path and diff.header.new_path of the file sections.
OldPaths == {NoPath, DevNull, <<"f.txt">>, <<"a", "f.txt">>}
NewPaths == {NoPath, DevNull, <<"b", "f.txt">>, <<"b", "d", "n.txt">>}

\* The new side of the hunks of a file section.
NewSides ==
    {t \in TextFiles : t.eol = LF /\ t.final /\ t.lines \in {<<"b">>, <<"b", "a">>}}
NoSide == [lines |-> << >>, eol |-> LF, final |-> FALSE]

\* A file section (a diff of parse_patch): its header paths, whether it has
\* hunk data (diff.changes is not None), the new side of its hunks, and
\* whether applying its hunks raises.
Sections ==
    {d \in [old_path : OldPaths, new_path : NewPaths, changes : BOOLEAN,
            b : NewSides \cup {NoSide}, raises : BOOLEAN] :
        /\ d.changes <=> d.b # NoSide
        /\ d.raises => d.changes}

PatchTexts == UNION {[1..n -> Sections] : n \in 1..MaxSections}

\* Contents of the files of the working directory.
NoFile == [exists |-> FALSE, content |-> << >>]
FileOf(content) == [exists |-> TRUE, content |-> content]

\* path.removeprefix("b/") (commit_only.py:19,23).
removeprefix(path) ==
    IF Len(path) > 1 /\ path[1] = "b" THEN Tail(path) ELSE path

\* os.path.exists(path) for a path under the working directory t.
exists(t, path) == path \in FilePaths /\ t.files[path].exists

\* os.path.dirname(path), relative to repo_dir.
dirname(path) == SubSeq(path, 1, Len(path) - 1)

\* Faulty variant of makedirs: the directory is not created.
makedirs_Skipped(t, dir) == t

\* os.makedirs(dir, exist_ok=True) (commit_only.py:57); repo_dir itself
\* exists.
makedirs(t, dir) ==
    IF dir = << >> THEN t ELSE [t EXCEPT !.dirs = @ \cup {dir}]

\* open(new_path, "w") and the prints: the file is created or replaced in
\* an existing directory; in a missing directory open raises.
write(t, path, content) ==
    IF dirname(path) # << >> /\ dirname(path) \notin t.dirs
    THEN [tree |-> t, raised |-> TRUE]
    ELSE [tree |-> [t EXCEPT !.files[path] = FileOf(content)],
          raised |-> FALSE]

\* os.remove(old_path) (commit_only.py:28).
remove(t, path) == [t EXCEPT !.files[path] = NoFile]

\* Faulty variant of NewlineOf: LF is tested before CRLF.
NewlineOf_LFFirst(t, old_path) ==
    IF old_path # NoPath /\ exists(t, old_path)
    THEN LET content == t.files[old_path].content IN
         IF \E k \in 1..Len(content) : content[k] \in {LF, CRLF} THEN LF
         ELSE NULL
    ELSE LF

\* The newline of a file section (commit_only.py:32-47): detected from the
\* file at old_path when there is one, "\n" otherwise.
NewlineOf(t, old_path) ==
    IF old_path # NoPath /\ exists(t, old_path)
    THEN DetectNewline(t.files[old_path].content)
    ELSE LF

\* One turn of the loop of apply_patch (commit_only.py:13-62) on the
\* working directory t: the directory it leaves, and whether it raised.
ApplySection(t, diff) ==
    LET old_path == IF diff.old_path # NoPath /\ diff.old_path # DevNull
                    THEN removeprefix(diff.old_path) ELSE NoPath
        new_path == removeprefix(diff.new_path)
        newline == NewlineOf(t, old_path)
        split_content == IF old_path # NoPath /\ exists(t, old_path)
                         THEN SplitContent(t.files[old_path].content)
                         ELSE << >>
    IN
    IF diff.new_path = NoPath THEN [tree |-> t, raised |-> FALSE]
    ELSE IF diff.new_path = DevNull
    THEN [tree |-> IF old_path # NoPath /\ exists(t, old_path)
                   THEN remove(t, old_path) ELSE t,
          raised |-> FALSE]
    ELSE IF ~diff.changes THEN [tree |-> t, raised |-> FALSE]
    ELSE IF diff.raises THEN [tree |-> t, raised |-> TRUE]
    ELSE write(makedirs(t, dirname(new_path)), new_path,
               WriteLines(apply_diff(split_content, diff.b), newline))

\* The loop of apply_patch over the file sections, in their order; an
\* exception leaves the loop and the function.
RECURSIVE ApplySections(_, _)
ApplySections(t, diffs) ==
    IF diffs = << >> THEN [tree |-> t, raised |-> FALSE]
    ELSE LET r == ApplySection(t, Head(diffs)) IN
         IF r.raised THEN r ELSE ApplySections(r.tree, Tail(diffs))

\* One call of apply_patch(repo_dir, patch), parse_patch(patch) giving the
\* file sections diffs.
ApplyPatchToDir ==
    /\ ret = << >>
    /\ \E diffs \in PatchTexts :
          LET r == ApplySections(fs, diffs) IN
          /\ fs' = r.tree
          /\ exc' = IF r.raised THEN "apply_patch raised" ELSE exc
          /\ ret' = Append(ret, [before |-> fs, diffs |-> diffs,
                                 raised |-> r.raised])
    /\ UNCHANGED <<rev, runs, pr_type, github_env, pc, cur, output_dir, out,
                   work, try_n, probes, remote, jsonl, issue_collection,
                   userdata, env_file, ref_id, lst, log, user_collection>>

\* Contents f.txt may have before the call: none, without terminator, LF,
\* CRLF, and both terminators.
OriginalContents ==
    {<<"a">>, <<"a", LF>>, <<"a", CRLF, "b", CRLF>>, <<"a", LF, "b", CRLF>>}

\* The working directory before the call: f.txt and a/f.txt exist or not,
\* d/ does not exist.
InitDir ==
    /\ NothingRunning
    /\ \E f \in {NoFile} \cup {FileOf(c) : c \in OriginalContents},
          g \in {NoFile, FileOf(<<"a", LF>>)} :
          fs = [files |-> [p \in FilePaths |->
                              IF p = <<"f.txt">> THEN f
                              ELSE IF p = <<"a", "f.txt">> THEN g
                              ELSE NoFile],
                dirs |-> IF g.exists THEN {<<"a">>} ELSE {}]
    /\ ret = << >>

DirNext == ApplyPatchToDir

DirSpec == InitDir /\ [][DirNext]_vars


\* ------------------------------------------- the selection record of a user
\* Largest number of writes of one user's selection record.
MaxWrites == 4

\* A run of the coordinator persists a pending comparison under a new
\* identifier (uuid4) and merges its selection entry into the record of the
\* owner (resolve_issue.py:416-453).
PersistSelection ==
    /\ Len(ret) < MaxWrites
    /\ \E id \in UUIDs :
          /\ ~userdata.sel[id].present
          /\ userdata' = MergeSelection(userdata, id)
          /\ ret' = Append(ret, [op |-> "persist", id |-> id, choice |-> NULL])
    /\ UNCHANGED <<rev, runs, pr_type, fs, exc, github_env, pc, cur,
                   output_dir, out, work, try_n, probes, remote, jsonl,
                   issue_collection, env_file, ref_id, lst, log,
                   user_collection>>

\* The listener of a persisted comparison records the decision in the
\* record of the owner (listen_for_decision.py:131-177).
DecideSelection ==
    /\ Len(ret) < MaxWrites
    /\ \E id \in UUIDs, w \in Winners \ {NULL} :
          /\ userdata.sel[id].present
          /\ userdata' = UpdateSelections(userdata, id, w)
          /\ ret' = Append(ret, [op |-> "decision", id |-> id, choice |-> w])
    /\ UNCHANGED <<rev, runs, pr_type, fs, exc, github_env, pc, cur,
                   output_dir, out, work, try_n, probes, remote, jsonl,
                   issue_collection, env_file, ref_id, lst, log,
                   user_collection>>

\* The owner has no selection record yet.
InitSelections ==
    /\ NothingRunning
    /\ fs = NoFs
    /\ ret = << >>

SelectionsNext == PersistSelection \/ DecideSelection

SelectionsSpec == InitSelections /\ [][SelectionsNext]_vars

\* ================================================================ properties
HasPatch(i) == out[i].git_patch # NULL /\ out[i].git_patch # ""

\* The record a step has just written to issue_collection under id.
Written(id) == issue_collection[id] = NoDoc /\ issue_collection'[id] # NoDoc

\* C1: the record send_to_firebase writes has status "failed" if and only
\* if at least one of the two attempts has a null or empty git_patch, and
\* status "pending" in every other case.
C1_StatusByPatches ==
    [][\A id \in UUIDs :
          Written(id) =>
             /\ issue_collection'[id].status \in {"failed", "pending"}
             /\ issue_collection'[id].status = "failed"
                   <=> (~HasPatch(1) \/ ~HasPatch(2))]_vars

\* C1 witness: a failed record was written although the first attempt has a
\* patch (the second one has the empty patch).
C1_Witness ==
    \E id \in UUIDs :
       /\ issue_collection[id].status = "failed"
       /\ HasPatch(1)
       /\ out[2].git_patch = ""

\* C2: a record's status only moves pending -> completed; a failed record
\* never changes and keeps winner null; winner is non-null only on a
\* completed record; a completed record never changes again; no record is
\* deleted.
C2_Lifecycle ==
    [][\A id \in UUIDs :
          LET d == issue_collection[id]
              e == issue_collection'[id]
          IN /\ e.winner # NULL => e.status = "completed"
             /\ d # NoDoc => e # NoDoc
             /\ (d # NoDoc /\ e.status # d.status)
                   => (d.status = "pending" /\ e.status = "completed")
             /\ d.status = "failed" => (e = d /\ e.winner = NULL)
             /\ d.status = "completed" => e = d
             /\ (d # NoDoc /\ e.winner # d.winner) => d.winner = NULL]_vars

\* C2 witness: the run's record was decided (completed with a winner) after
\* it had been signalled as pending.
C2_Witness ==
    /\ pc = "done"
    /\ ref_id # 0
    /\ issue_collection[ref_id].status = "completed"
    /\ issue_collection[ref_id].winner = "tie"

\* A step in which on_snapshot was called.
SnapshotDelivered == lst'.delivered = lst.delivered + 1

\* C3: a snapshot whose winner is null or whose status is not "completed"
\* makes the listener append nothing to the side-channel file, write nothing
\* to the user selection records and leave the event unset (it keeps
\* waiting); the listener writes only on a completed snapshot with a winner.
C3_IgnoresUndecided ==
    [][/\ (SnapshotDelivered
             /\ (lst'.last.winner = NULL \/ lst'.last.status # "completed"))
          => /\ env_file' = env_file
             /\ userdata' = userdata
             /\ user_collection' = user_collection
             /\ lst'.event = lst.event
             /\ lst'.pc = "waiting"
       /\ (env_file' # env_file \/ userdata' # userdata
             \/ user_collection' # user_collection \/ lst'.event # lst.event)
          => /\ SnapshotDelivered
             /\ lst'.last.winner # NULL
             /\ lst'.last.status = "completed"]_vars

\* C3 witness: a snapshot with a winner but status "pending" was delivered
\* to a listener that could have written, and the listener is still waiting
\* with nothing written.
C3_Witness ==
    /\ lst.delivered > 0
    /\ lst.github_env
    /\ lst.last.winner = "modelB"
    /\ lst.last.status = "pending"
    /\ lst.pc = "waiting"
    /\ ~lst.event
    /\ env_file = << >>

\* C4: the line the listener appends is SELECTED=1 for winner modelA, 2 for
\* modelB, 1 for tie, and 1 with an error logged for any other non-null
\* winner; the value is always 1 or 2.
C4_WinnerTranslation ==
    [][Len(env_file') = Len(env_file) + 1 =>
          LET w == lst'.last.winner
              line == env_file'[Len(env_file')]
          IN /\ line[1] = "SELECTED"
             /\ line[2] \in {"1", "2"}
             /\ w = "modelA" => line[2] = "1"
             /\ w = "modelB" => line[2] = "2"
             /\ w = "tie" => line[2] = "1"
             /\ w \notin {"modelA", "modelB", "tie"}
                   => /\ line[2] = "1"
                      /\ Len(log') > Len(log)
                      /\ log'[Len(log) + 1] = "Unknown winner value"]_vars

\* C4 witness: SELECTED=2 was appended (for modelB, the only winner giving
\* 2) and then SELECTED=1 for an unknown winner, whose error is in the log.
C4_Witness ==
    /\ env_file = << <<"SELECTED", "2">>, <<"SELECTED", "1">> >>
    /\ lst.last.winner = "other"
    /\ \E k \in 1..Len(log) : log[k] = "Unknown winner value"


\* The lines the claim C5 expects for the record of the run.
ExpectedSignal ==
    IF issue_collection[ref_id].status = "failed"
    THEN << <<"FAILED", "TRUE">> >>
    ELSE << <<"UUID", ref_id>>, <<"FAILED", "FALSE">> >>

\* send_to_firebase has written its record and has ended (returned or raised).
SendEndedAfterWrite == ref_id # 0 /\ pc \in {"done", "raised"}

SendPositions ==
    {"init_repo", "apply_patch", "make_commit", "prepare", "probe", "default_branch",
     "checkout", "push", "rev_parse", "persist", "signal", "done"}

\* C6: attempt B is started only after attempt A has returned, the two
\* attempts are never in progress together, and send_to_firebase is entered
\* (and does any of its work) only after both have returned.
C6_Sequential ==
    /\ out[2].state # "idle" => out[1].state = "returned"
    /\ ~(out[1].state = "running" /\ out[2].state = "running")
    /\ (pc \in SendPositions \/ work[1].inited \/ work[2].inited \/ ref_id # 0)
          => (out[1].state = "returned" /\ out[2].state = "returned")

\* C6 witness: attempt B is in progress, attempt A has returned.
C6_Witness ==
    /\ out[1].state = "returned"
    /\ out[2].state = "running"

\* C7: at the moment a record is written with status "pending", both
\* attempts have a non-empty patch and each attempt's patch has been
\* applied, committed and pushed (its branch is on the remote with the
\* attempt's commit); branch_name and commit_hash are set in both outputs,
\* in what was dumped for them and in the record.
C7_PendingMeansPushed ==
    [][\A id \in UUIDs :
          (Written(id) /\ issue_collection'[id].status = "pending") =>
             /\ \A i \in Attempts :
                   /\ HasPatch(i)
                   /\ work[i].inited /\ work[i].applied
                   /\ work[i].committed /\ work[i].pushed
                   /\ out[i].branch_name \in Branches
                   /\ remote[out[i].branch_name] = i
                   /\ out[i].commit_hash \notin {NULL, "base"}
                   /\ jsonl'[i].written
                   /\ jsonl'[i].branch_name = out[i].branch_name
                   /\ jsonl'[i].commit_hash = out[i].commit_hash
             /\ issue_collection'[id].commitA = out[1].commit_hash
             /\ issue_collection'[id].commitB = out[2].commit_hash]_vars

\* C7 witness: a pending record exists.
C7_Witness ==
    \E id \in UUIDs :
       /\ issue_collection[id].status = "pending"
       /\ work[1].pushed /\ work[2].pushed

\* The probe loop of attempt i has ended: its last probe was not a 200.
LoopEnded(i) ==
    /\ probes[i] # << >>
    /\ probes[i][Len(probes[i])][2] # 200

\* C8 as stated: when the probe loop has ended after N probes, the probes
\* were those of -try1, -try2, ..., -tryN in this order, all but the last
\* answered 200, the last did not, and the branch created is -tryN.
C8_SmallestTry ==
    \A i \in Attempts :
       LoopEnded(i) =>
          LET n == Len(probes[i]) IN
          /\ \A k \in 1..n : probes[i][k][1] = k
          /\ \A k \in 1..(n - 1) : probes[i][k][2] = 200
          /\ work[i].local_branch # NoBranch => work[i].local_branch = n

\* C8 holds of src/resolver/resolve_issue.py; the revision of
\* src/openhands_resolver probes the bare name first and -try2 next.
C8_SmallestTryInResolver == rev = "resolver" => C8_SmallestTry

\* C9: the two attempts never share an output directory or a working copy,
\* never get the same branch name, and a branch pushed by one attempt is
\* never replaced by the other attempt.
C9_Disjoint ==
    /\ (out[1].output_dir # NULL /\ out[2].output_dir # NULL)
          => out[1].output_dir # out[2].output_dir
    /\ (work[1].dir # NULL /\ work[2].dir # NULL) => work[1].dir # work[2].dir
    /\ out[1].output_dir \in {NULL, "output1"}
    /\ out[2].output_dir \in {NULL, "output2"}
    /\ (out[1].branch_name # NoBranch /\ out[2].branch_name # NoBranch)
          => out[1].branch_name # out[2].branch_name
    /\ \A i \in Attempts :
          work[i].pushed => remote[work[i].local_branch] = i

\* C9 witness: both attempts were reconciled in their working copies and
\* both were assigned a branch name.
C9_Witness ==
    /\ out[1].branch_name # NoBranch
    /\ out[2].branch_name # NoBranch
    /\ work[1].dir # NULL /\ work[2].dir # NULL

\* The run ended with an exception raised while attempt cur was reconciled.
ReconcileRaised ==
    /\ pc = "raised"
    /\ out[1].state = "returned" /\ out[2].state = "returned"
    /\ ref_id = 0

\* C10 as stated: when the reconciliation of one attempt has failed, the
\* failure is in that attempt's error field and the other attempt has been
\* reconciled all the same (its get_new_commit_hash has completed).
C10_FailureIsolated ==
    ReconcileRaised =>
       /\ out[cur].error # NULL
       /\ \A j \in Attempts \ {cur} : out[j].commit_hash # NULL

\* An attempt of the run has failed: resolve_issue returned the error output
\* for it (the agent invocation raised), or its reconciliation raised.
AttemptFailed ==
    \/ \E i \in Attempts : out[i].state = "returned" /\ out[i].error # NULL
    \/ ReconcileRaised

\* The run is over: resolve_issues_with_random_models returned or raised.
RunEnded == pc \in {"done", "raised"}

\* C11 as stated (the side-channel file being available): a run that has
\* ended with a failed attempt has persisted exactly one issue_collection
\* record, with status "failed", and has appended FAILED=TRUE.
C11_FailureRecorded ==
    (RunEnded /\ AttemptFailed /\ github_env) =>
       /\ Cardinality({id \in UUIDs : issue_collection[id] # NoDoc}) = 1
       /\ \A id \in UUIDs :
             issue_collection[id] # NoDoc => issue_collection[id].status = "failed"
       /\ env_file = << <<"FAILED", "TRUE">> >>

\* C12: a document of issue_collection is changed only (a) by the
\* coordinator when it creates it, whole, the one time the run persists
\* (no document of the run existed before), and (b) by the external
\* decision, which changes status and winner and no other field while
\* neither the coordinator nor the listener takes a step; the coordinator
\* never changes a document that exists, and no step of the listener
\* changes issue_collection.
C12_SingleWriter ==
    [][/\ \A id \in UUIDs :
             LET d == issue_collection[id]
                 e == issue_collection'[id]
             IN d # e =>
                   \/ /\ d = NoDoc
                      /\ pc = "persist" /\ pc' = "signal"
                      /\ \A x \in UUIDs : issue_collection[x] = NoDoc
                      /\ e = InitialRecord(rev, out[1], out[2])
                      /\ ref_id' = id
                      /\ lst' = lst
                   \/ /\ d # NoDoc
                      /\ e = [d EXCEPT !.status = e.status, !.winner = e.winner]
                      /\ pc' = pc /\ out' = out /\ ref_id' = ref_id
                      /\ lst' = lst
       /\ lst' # lst => issue_collection' = issue_collection
       /\ (pc' # pc /\ pc # "persist") => issue_collection' = issue_collection]_vars

\* C12 witness: the record of the run was created by the coordinator,
\* decided by the external actor, and the listener watching it has acted on
\* the decision; the fields written at creation are as the coordinator
\* wrote them.
C12_Witness ==
    /\ pc = "done"
    /\ ref_id # 0
    /\ lst.uuid = ref_id
    /\ lst.event
    /\ issue_collection[ref_id] =
          [InitialRecord(rev, out[1], out[2]) EXCEPT !.status = "completed",
                                                     !.winner = "modelB"]

\* The user record the listener of revision r writes.
SelectionRecord(r, ud, uc) == IF r = "resolver" THEN ud ELSE uc

\* A step in which on_snapshot has processed a decision: it appended the
\* SELECTED line and set the event.
DecisionProcessed ==
    /\ SnapshotDelivered
    /\ Len(env_file') = Len(env_file) + 1
    /\ lst'.event

\* The update of the user record raised in this step (and was logged).
UserUpdateRaised ==
    \E k \in (Len(log) + 1)..Len(log') : log'[k] = "Error updating user_collection"

\* C13 as stated (the update of the user record not having raised): after
\* the listener has processed a decision for comparison U, the user's
\* selection record has selections[U].isLatest = true and
\* selections[U].choice = winner, and every other comparison that was
\* present in the record has isLatest = false.
C13_LatestSelection ==
    [][(DecisionProcessed /\ ~UserUpdateRaised) =>
          LET before == SelectionRecord(rev, userdata, user_collection)
              after == SelectionRecord(rev, userdata', user_collection')
              U == lst.uuid
          IN /\ after.sel[U].present
             /\ after.sel[U].isLatest
             /\ after.sel[U].choice = lst'.last.winner
             /\ \A x \in UUIDs \ {U} :
                   before.sel[x].present
                      => (after.sel[x].present /\ ~after.sel[x].isLatest)]_vars

\* C13 holds of src/resolver/listen_for_decision.py; the listener of
\* src/openhands_resolver updates the entry of U only.
C13_LatestSelectionInResolver ==
    [][(rev = "resolver" /\ DecisionProcessed /\ ~UserUpdateRaised) =>
          LET U == lst.uuid
          IN /\ userdata'.sel[U] =
                   [present |-> TRUE, choice |-> lst'.last.winner, isLatest |-> TRUE]
             /\ \A x \in UUIDs \ {U} :
                   userdata.sel[x].present
                      => (userdata'.sel[x].present /\ ~userdata'.sel[x].isLatest)]_vars

\* The git steps of one reconciliation, in the order of get_new_commit_hash.
GitSteps == <<"checkout", "add", "commit", "checkout_b", "push">>

\* Position of the command c in GitSteps.
StepIndex(c) == CHOOSE k \in 1..Len(GitSteps) : GitSteps[k] = c

\* C14: in every attempt's working copy each of checkout, add, commit,
\* branch creation and push has been run at most once and in this order;
\* a command that exited non-zero is the last one run there, the run has
\* then ended with an exception, and nothing was pushed; a push has been
\* run only after a successful commit and a successful branch creation.
C14_NoRetry ==
    \A i \in Attempts :
       LET g == work[i].git IN
       /\ \A k \in 1..Len(g) : \E n \in 1..Len(GitSteps) : g[k][1] = GitSteps[n]
       /\ \A k, l \in 1..Len(g) :
             k < l => StepIndex(g[k][1]) < StepIndex(g[l][1])
       /\ \A k \in 1..Len(g) :
             g[k][2] = FALSE =>
                /\ k = Len(g)
                /\ pc = "raised"
                /\ ~work[i].pushed
                /\ \A b \in Branches : remote[b] # i
       /\ \A k \in 1..Len(g) :
             g[k][1] = "push" =>
                /\ <<"commit", TRUE>> \in {g[l] : l \in 1..(k - 1)}
                /\ <<"checkout_b", TRUE>> \in {g[l] : l \in 1..(k - 1)}

\* C14 witness: the first attempt ran its five git steps once each, all
\* with success; in the second attempt git commit failed, which ended the
\* run with neither branch creation nor push.
C14_Witness ==
    /\ work[1].git = << <<"checkout", TRUE>>, <<"add", TRUE>>, <<"commit", TRUE>>,
                        <<"checkout_b", TRUE>>, <<"push", TRUE>> >>
    /\ work[2].git = << <<"checkout", TRUE>>, <<"add", TRUE>>, <<"commit", FALSE>> >>
    /\ pc = "raised"

\* C15: prepare_branch_and_push called with a pr_type outside
\* {branch, draft, ready} raises ValueError "Invalid pr_type" and does
\* nothing else: no probe of the remote is made, no local branch is created,
\* no git command is run and nothing is pushed.
C15_InvalidPrType ==
    pr_type \notin {"branch", "draft", "ready"} =>
       /\ pc \in {"prepare", "raised"}
       /\ pc = "raised" => exc = "Invalid pr_type"
       /\ probes[cur] = << >>
       /\ work[cur] = CommittedWork
       /\ \A b \in Branches : remote[b] \in {Absent, PreExisting}

\* C15 witness: the call with pr_type "invalid" has raised.
C15_Witness ==
    /\ pr_type = "invalid"
    /\ pc = "raised"
    /\ exc = "Invalid pr_type"
    /\ probes[cur] = << >>

\* The file system call k of ret has left.
FsAfter(k) == IF k = Len(ret) THEN fs ELSE ret[k + 1].before

\* C16: a successful initialize_repo(output_dir, n, type) returns
\* output_dir/patches/{type}_{n}, whose content is then that of
\* output_dir/repo, whatever was at that path before; no call changes
\* output_dir/repo; and a successful call made right after a successful
\* call with the same arguments returns the same and leaves the same.
C16_InitializeRepoCopies ==
    \A k \in 1..Len(ret) :
       LET c == ret[k] IN
       /\ FsAfter(k).repo = c.before.repo
       /\ (c.base_commit = NULL /\ c.before.repo # Missing) =>
             /\ c.result = DestDir
             /\ FsAfter(k).dest = c.before.repo
       /\ (k > 1 /\ c.result = DestDir /\ ret[k - 1].result = DestDir
             /\ c.base_commit = ret[k - 1].base_commit) =>
             FsAfter(k) = FsAfter(k - 1)

\* C16 witness: two successful calls in a row without base_commit, the first
\* one having replaced files that were no copy of the repository.
C16_Witness ==
    /\ Len(ret) = 2
    /\ ret[1].before.dest = Stale
    /\ ret[1].base_commit = NULL /\ ret[2].base_commit = NULL
    /\ ret[1].result = DestDir /\ ret[2].result = DestDir
    /\ fs.dest = fs.repo

\* C17: initialize_repo called when output_dir/repo does not exist raises
\* (source directory does not exist) and leaves the file system as it found
\* it: a working copy that exists is not deleted, none is created; called
\* with a base_commit whose checkout exits non-zero it raises "Failed to
\* check out commit".
C17_InitializeRepoFails ==
    \A k \in 1..Len(ret) :
       LET c == ret[k] IN
       /\ c.before.repo = Missing =>
             /\ c.result = "Source directory does not exist"
             /\ FsAfter(k) = c.before
       /\ (c.before.repo # Missing /\ c.base_commit # NULL /\ ~c.checkout_ok) =>
             c.result = "Failed to check out commit"

\* C17 witness: the call found no output_dir/repo and an earlier working
\* copy; it has raised and the working copy is still there.
C17_Witness ==
    /\ Len(ret) >= 1
    /\ ret[1].before.repo = Missing
    /\ ret[1].before.dest \in Checkouts
    /\ ret[1].result = "Source directory does not exist"
    /\ fs.dest = ret[1].before.dest

\* What make_commit raises when git add or git commit fails on a tree that
\* has changes to commit.
OtherCommitFailures ==
    {make_commit([repo |-> r, dest |-> d], a, c).ret :
        r \in Checkouts, d \in {x \in Checkouts : HasChanges(x)},
        a \in BOOLEAN, c \in BOOLEAN} \ {NewCommit}

\* C18 as stated: make_commit called (git add succeeding) on a working tree
\* without changes raises an error specific to that case, one that no other
\* failure of make_commit raises, and leaves HEAD where it was; a commit
\* hash is returned only when a new commit was created.
C18_NoChangesError ==
    \A k \in 1..Len(ret) :
       LET c == ret[k] IN
       /\ (c.add_ok /\ ~HasChanges(c.before.dest)) =>
             /\ c.result # NewCommit
             /\ c.result \notin OtherCommitFailures
             /\ FsAfter(k).dest.head = c.before.dest.head
       /\ c.result = NewCommit =>
             /\ FsAfter(k).dest.head = NewCommit
             /\ c.before.dest.head # NewCommit

\* What holds of commit_only.make_commit: on a tree without changes it
\* raises (the error of any failed git commit) and HEAD stays; a commit hash
\* is returned only when a new commit was created.
C18_NoCommitWithoutChanges ==
    \A k \in 1..Len(ret) :
       LET c == ret[k] IN
       /\ ~HasChanges(c.before.dest) =>
             /\ c.result \in {"Failed to add files to git", "Failed to commit changes"}
             /\ FsAfter(k) = c.before
       /\ c.result = NewCommit =>
             /\ FsAfter(k).dest.head = NewCommit
             /\ c.before.dest.head # NewCommit

\* The texts of Explanations that are JSON lists, with their items.
ListTexts == {"[\"A\",\"B\"]", "[]"}
ItemsOf(raw) == IF raw = "[\"A\",\"B\"]" THEN <<"A", "B">> ELSE << >>

\* The first line for model n ("1st" or "2nd") of a call c.
FirstLine(c, nth) == "Fix " \o c.issue_type \o " #123 with " \o nth \o " Model"

\* What C19 says of every call but the case of an explanation that is no
\* JSON list: the first line with 1st Model / 2nd Model by the last
\* character of the output directory, ValueError for any other directory;
\* the items of a JSON list as lines "i. item" numbered from 1 in list
\* order; a duration d > 0 as last line "Duration: {d div 60}m {d mod 60}s"
\* (125.5 s gives "2m 5s").
C19_Common(c) ==
    LET m == c.result.message
        last == ModelNumber(c.dir)
    IN /\ last = "1" => (c.result.error = NULL /\ m[1] = FirstLine(c, "1st"))
       /\ last = "2" => (c.result.error = NULL /\ m[1] = FirstLine(c, "2nd"))
       /\ last \notin {"1", "2"} =>
             (c.result.error = "Invalid model number" /\ m = << >>)
       /\ (last \in {"1", "2"} /\ c.expl \in ListTexts) =>
             /\ m[3] = "Summary of Changes:"
             /\ \A i \in 1..Len(ItemsOf(c.expl)) :
                   m[3 + i] = ToString(i) \o ". " \o ItemsOf(c.expl)[i]
             /\ Len(m) >= 3 + Len(ItemsOf(c.expl))
             /\ (Len(m) > 3 + Len(ItemsOf(c.expl))
                   => m[4 + Len(ItemsOf(c.expl))] = "")
       /\ (last \in {"1", "2"} /\ c.duration > 0) =>
             /\ m[Len(m)] = "Duration: " \o ToString(c.duration \div 600) \o "m "
                               \o ToString((c.duration % 600) \div 10) \o "s"
             /\ c.duration = 1255 => m[Len(m)] = "Duration: 2m 5s"
             /\ c.duration = 1205 => m[Len(m)] = "Duration: 2m 0s"

C20_RoundTrip ==
    \A k \in 1..Len(ret) : FsAfter(k).file = Bytes(ret[k].b)

\* What holds of apply_patch: the round trip is exact when B is empty or
\* ends with a line terminator (and shares the line-ending convention of
\* A); in every other case the result is B with a terminator added.
C20_RoundTripWhenTerminated ==
    \A k \in 1..Len(ret) :
       LET b == ret[k].b IN
       IF b.final \/ b.lines = << >> \/ Bytes(b) = ret[k].before.file
       THEN FsAfter(k).file = Bytes(b)
       ELSE FsAfter(k).file = Bytes(b) \o <<b.eol>>

\* The file a header path names by the convention of unified diffs: the
\* path without its a/ or b/ prefix.
NamedFile(path) ==
    IF Len(path) > 1 /\ path[1] \in {"a", "b"} THEN Tail(path) ELSE path

\* The calls of apply_patch with a single file section of deletion.
DeletionCall(k) ==
    /\ Len(ret[k].diffs) = 1
    /\ ret[k].diffs[1].new_path = DevNull
    /\ ret[k].diffs[1].old_path \notin {NoPath, DevNull}

\* C21 as stated: after apply_patch with a file section whose new path is
\* /dev/null, the file named by the old path (given as a/<path>) is not in
\* repo_dir, whether it was there or not, the call has not raised, and
\* every other file is as before.
C21_Deletion ==
    \A k \in 1..Len(ret) :
       DeletionCall(k) =>
          LET p == NamedFile(ret[k].diffs[1].old_path) IN
          /\ ~ret[k].raised
          /\ ~FsAfter(k).files[p].exists
          /\ \A q \in FilePaths \ {p} :
                FsAfter(k).files[q] = ret[k].before.files[q]

\* What holds of apply_patch: the file removed is the one at the old path
\* joined to repo_dir after removal of a b/ prefix only, so that an old
\* path a/<path> names repo_dir/a/<path>.
C21_DeletionOfJoinedPath ==
    \A k \in 1..Len(ret) :
       DeletionCall(k) =>
          LET p == removeprefix(ret[k].diffs[1].old_path) IN
          /\ ~ret[k].raised
          /\ ~FsAfter(k).files[p].exists
          /\ FsAfter(k).dirs = ret[k].before.dirs
          /\ \A q \in FilePaths \ {p} :
                FsAfter(k).files[q] = ret[k].before.files[q]

\* The calls of apply_patch with a single file section of creation: no old
\* path or /dev/null, hunks that apply, and a target that does not exist.
CreationCall(k) ==
    /\ Len(ret[k].diffs) = 1
    /\ ret[k].diffs[1].old_path \in {NoPath, DevNull}
    /\ ret[k].diffs[1].new_path \notin {NoPath, DevNull}
    /\ ret[k].diffs[1].changes
    /\ ~ret[k].diffs[1].raises
    /\ ~ret[k].before.files[NamedFile(ret[k].diffs[1].new_path)].exists

\* C22: after apply_patch with a file section without old path (absent or
\* /dev/null) whose target did not exist, the call has not raised, the
\* parent directories of the target exist, and the target holds the added
\* lines of the hunks, in their order and nothing else, each followed by LF.
C22_Creation ==
    \A k \in 1..Len(ret) :
       CreationCall(k) =>
          LET p == NamedFile(ret[k].diffs[1].new_path)
              added == ret[k].diffs[1].b.lines
              f == FsAfter(k).files[p]
          IN
          /\ ~ret[k].raised
          /\ dirname(p) # << >> => dirname(p) \in FsAfter(k).dirs
          /\ f.exists
          /\ Len(f.content) = 2 * Len(added)
          /\ \A n \in 1..Len(added) :
                f.content[2 * n - 1] = added[n] /\ f.content[2 * n] = LF

\* A file of two added lines was created in a directory that did not
\* exist.
C22_Witness ==
    /\ Len(ret) = 1
    /\ CreationCall(1)
    /\ ret[1].diffs[1].new_path = <<"b", "d", "n.txt">>
    /\ <<"d">> \notin ret[1].before.dirs
    /\ fs.files[<<"d", "n.txt">>].content = <<"b", LF, "a", LF>>

\* A file section whose application fails: no new path, no hunk data for a
\* section that is not a deletion, or hunks whose application raises.
FailingSection(d) ==
    \/ d.new_path = NoPath
    \/ d.new_path # DevNull /\ (~d.changes \/ d.raises)

\* The file sections of a patch that do not fail, in their order.
OtherSections(diffs) == SelectSeq(diffs, LAMBDA d : ~FailingSection(d))

\* A file section whose hunks are applied, and raise.
RaisingSection(d) == d.raises /\ d.new_path \notin {NoPath, DevNull}

\* The index of the first file section whose hunks raise, 0 when none does.
FirstRaising(diffs) ==
    IF \E n \in 1..Len(diffs) : RaisingSection(diffs[n])
    THEN CHOOSE n \in 1..Len(diffs) :
            /\ RaisingSection(diffs[n])
            /\ \A j \in 1..(n - 1) : ~RaisingSection(diffs[j])
    ELSE 0

\* C23 as stated: whatever file sections of a patch fail, apply_patch does
\* not raise and leaves the working directory that the other file sections
\* of the patch, those before and those after, leave when applied alone.
C23_FailureIsolated ==
    \A k \in 1..Len(ret) :
       /\ ~ret[k].raised
       /\ FsAfter(k) = ApplySections(ret[k].before,
                                     OtherSections(ret[k].diffs)).tree

\* What holds of apply_patch: file sections without new path or without
\* hunk data are skipped and the other sections are applied; a file section
\* whose hunks raise ends the call with that exception, after the sections
\* before it and without the sections after it.
C23_SkippedOrAborted ==
    \A k \in 1..Len(ret) :
       LET diffs == ret[k].diffs
           n == FirstRaising(diffs)
       IN
       IF n = 0
       THEN /\ ~ret[k].raised
            /\ FsAfter(k) = ApplySections(ret[k].before,
                                          OtherSections(diffs)).tree
       ELSE /\ ret[k].raised
            /\ FsAfter(k) =
                  ApplySections(ret[k].before,
                                OtherSections(SubSeq(diffs, 1, n - 1))).tree

\* The calls of apply_patch with a single file section that is written.
WritingCall(k) ==
    /\ Len(ret[k].diffs) = 1
    /\ ret[k].diffs[1].new_path \notin {NoPath, DevNull}
    /\ ret[k].diffs[1].changes
    /\ ~ret[k].diffs[1].raises

\* The terminator C24 gives for a file section: that of the file at the old
\* path when it exists (CRLF if it occurs anywhere in the content, else LF
\* if it occurs, else the platform's, LF), and LF when there is no such
\* file.
ExpectedTerminator(before, old_path) ==
    IF old_path \in FilePaths /\ before.files[old_path].exists
    THEN LET c == before.files[old_path].content IN
         IF \E n \in 1..Len(c) : c[n] = CRLF THEN CRLF ELSE LF
    ELSE LF

\* C24: the file apply_patch writes for a file section holds the lines of
\* the result, every one of them, the last included, followed by the
\* terminator detected in the file at the old path, or by LF when that file
\* did not exist.
C24_LineEndings ==
    \A k \in 1..Len(ret) :
       WritingCall(k) =>
          LET d == ret[k].diffs[1]
              f == FsAfter(k).files[removeprefix(d.new_path)]
              t == ExpectedTerminator(
                       ret[k].before,
                       IF d.old_path = DevNull THEN NoPath
                       ELSE removeprefix(d.old_path))
          IN
          /\ f.exists
          /\ Len(f.content) = 2 * Len(d.b.lines)
          /\ \A n \in 1..Len(d.b.lines) :
                f.content[2 * n - 1] = d.b.lines[n] /\ f.content[2 * n] = t

\* A file holding both terminators, LF first, was modified and is written
\* with CRLF after every line.
C24_Witness ==
    /\ Len(ret) = 1
    /\ WritingCall(1)
    /\ ret[1].diffs[1].old_path = <<"f.txt">>
    /\ ret[1].before.files[<<"f.txt">>].content = <<"a", LF, "b", CRLF>>
    /\ fs.files[<<"f.txt">>].content = <<"b", CRLF, "a", CRLF>>

\* A snapshot with status 'completed' and a winner has been delivered to
\* the listener, which is still subscribed.
DecisionDelivered == lst.pc = "waiting" /\ ShouldAct(lst.last)

\* C25 as stated: once a snapshot with status 'completed' and a non-null
\* winner has been delivered, the listener eventually unsubscribes and
\* get_selected_model_number returns.
C25_EventuallyReturns == DecisionDelivered ~> lst.pc = "returned"

\* What holds of the listener: it returns after such a snapshot when the
\* GITHUB_ENV variable is set in its environment.
C25_ReturnsWhenEnvSet ==
    (DecisionDelivered /\ lst.github_env) ~> lst.pc = "returned"

\* The SELECTED lines of the side-channel file.
SelectedLines == SelectSeq(env_file, LAMBDA l : l[1] = "SELECTED")

\* C26 as stated: during one run of the listener at most one SELECTED line
\* is appended to the side-channel file.  The user selection record is
\* updated only by a callback that has appended such a line, so that it is
\* then updated at most once too.
C26_SelectedOnce == Len(SelectedLines) <= 1

\* What holds of the listener: no line is appended and no user record is
\* updated once it has unsubscribed.
C26_NothingAfterReturn ==
    [][lst.pc = "returned" =>
          /\ env_file' = env_file
          /\ userdata' = userdata
          /\ user_collection' = user_collection]_vars

\* Run r is between the probe that gave it its branch name and its push.
BetweenProbeAndPush(r) ==
    runs[r].pc \in {"default_branch", "checkout", "push"}

\* C27 as stated: while a run is between its probe of a branch name and its
\* push, no other run has obtained the same name as available and pushed
\* it.
C27_NamesNotShared ==
    \A r, s \in Runs :
       (r # s /\ BetweenProbeAndPush(r)) =>
          ~(runs[s].branch = runs[r].branch /\ runs[s].pc = "pushed"
            /\ remote[runs[r].branch] = s)

\* What holds of two concurrent runs: the remote accepts the push of a
\* name from one of them only; the other run's push fails.
C27_OnePushAccepted ==
    \A r, s \in Runs :
       (r # s /\ runs[r].pc = "pushed" /\ runs[s].pc = "pushed") =>
          runs[r].branch # runs[s].branch

\* The comparisons of the user that are marked latest.
LatestSelections ==
    {id \in UUIDs : userdata.sel[id].present /\ userdata.sel[id].isLatest}

\* C28 as stated: whatever runs have persisted and whatever decisions the
\* listeners have recorded, at most one comparison of the user has
\* isLatest = true.
C28_OneLatest == Cardinality(LatestSelections) <= 1

\* What holds of the record: right after a listener has recorded a
\* decision, the comparison decided is the only one marked latest.
C28_OneLatestAfterDecision ==
    (ret # << >> /\ ret[Len(ret)].op = "decision") =>
        LatestSelections = {ret[Len(ret)].id}

\* send_to_firebase has ended, by returning or by raising, after it has
\* written the record of the run.
RecordWritten ==
    /\ pc \in {"done", "raised"}
    /\ ref_id \in UUIDs
    /\ issue_collection[ref_id] # NoDoc

\* C29 as stated: when send_to_firebase has ended with a record written to
\* issue_collection, the side-channel file holds the signal lines of that
\* record, also when it has ended with an error.
C29_RecordSignalled ==
    RecordWritten =>
       env_file = SignalLines(PersistedStatus(rev, out[1], out[2]), ref_id)

\* What holds of send_to_firebase: the record is signalled when the
\* GITHUB_ENV variable is set; when it is not, the record is written and
\* RuntimeError is raised with nothing appended.
C29_SignalledWhenEnvSet ==
    RecordWritten =>
       IF github_env
       THEN /\ pc = "done"
            /\ env_file = SignalLines(PersistedStatus(rev, out[1], out[2]), ref_id)
       ELSE /\ pc = "raised"
            /\ exc = "GITHUB_ENV environment variable is not set."
            /\ env_file = << >>

\* The update of the user selection record has raised in a callback of the
\* listener: the error is in the log.
UpdateErrorLogged ==
    \E n \in 1..Len(log) : log[n] = "Error updating user_collection"

\* C30: when the update of the user selection record has raised inside
\* on_snapshot, the SELECTED line is in the side-channel file and the
\* completion event is set; and the listener then unsubscribes and returns.
C30_UpdateErrorOnlyLogged ==
    /\ [](UpdateErrorLogged => (Len(SelectedLines) >= 1 /\ lst.event))
    /\ (UpdateErrorLogged ~> lst.pc = "returned")

\* The listener has returned after an update of the user record that
\* raised, with its SELECTED line written.
C30_Witness ==
    /\ UpdateErrorLogged
    /\ lst.pc = "returned"
    /\ env_file = <<<<"SELECTED", "2">>>>
    /\ userdata = NoUser

====
